---- MODULE Spec2Model ----
(***************************************************************************)
(* Model of the resilience core of aynse: the request batcher             *)
(* (aynse/nse/request_batcher.py) and the per-host connection pool        *)
(* (aynse/nse/connection_pool.py).                                        *)
(*                                                                         *)
(* and the HTTP clients with their circuit breaker and token bucket        *)
(* (aynse/nse/http_client.py).                                             *)
(*                                                                         *)
(* The specifications of the module:                                       *)
(*   Spec      RequestBatcher.batch_requests (threads of the worker pool) *)
(*   SpecParallelFair  a PARALLEL call, its threads scheduled fairly       *)
(*   SpecAsync RequestBatcher.abatch_requests (tasks of one event loop)    *)
(*   SpecPool  NSEConnectionPool (get_client, get_async_client, close_all) *)
(*   SpecPoolStats  SpecPool with get_pool_stats calls                     *)
(*   SpecGet   NSEConnectionPool, get_client calls only                    *)
(*   SpecSchemes  get_client calls for http and https base URLs            *)
(*   SpecUse   pool calls while requests through its clients are in flight *)
(*   SpecGlobal get_connection_pool / reset_connection_pool               *)
(*   SpecBreaker  one CircuitBreaker                                       *)
(*   SpecBucket   one TokenBucket and one caller of acquire                *)
(*   SpecBucketThreads  one TokenBucket, threads calling acquire(cost)     *)
(*   SpecBucketOnes  the same threads, every call being acquire(1)         *)
(*   SpecSoloFair  one TokenBucket, a single caller scheduled fairly       *)
(*   SpecOwnFailures  calls whose own failures open a new breaker          *)
(*   SpecLocks    the lock operations of the calls of the core             *)
(*   SpecCalls    threads calling batch_requests on one RequestBatcher     *)
(*   SpecRequest  one call of NSEHttpClient.get / get_json                 *)
(*   SpecAsyncClient  tasks of one event loop calling NSEAsyncHttpClient   *)
(*   SpecFirstRequests  the same tasks, each answered at its first attempt *)
(*   SpecStats    one RequestBatcher over several calls and reset_stats    *)
(***************************************************************************)
EXTENDS Integers, Sequences, FiniteSets, TLC

\* ------------------------------------------------------------------ bounds
MaxReq == 3          \* longest request list given to batch_requests
MaxParam == 2        \* request parameter values are 1..MaxParam
MaxBatch == 2        \* max_batch_size ranges over 1..MaxBatch
MaxWorkers == 2      \* max_concurrent_batches ranges over 1..MaxWorkers
MaxAsyncReq == 3     \* longest request list given to abatch_requests
MaxDur == 2          \* a request coroutine takes 1..MaxDur units of time
MaxConc == 3         \* an explicit max_concurrency ranges over 1..MaxConc
MaxTime == 3         \* the pool's clock runs over 0..MaxTime
MaxTTL == 2          \* session_ttl ranges over 1..MaxTTL
MaxSessions == 2     \* max_sessions ranges over 1..MaxSessions
MaxOps == 3          \* number of pool operations in one run
MaxDelay == 1        \* how far the clock can advance inside one pool call
NThreads == 2        \* threads calling get_connection_pool / reset_connection_pool
MaxCalls == 4        \* number of such calls in one run
MaxThreshold == 3    \* failure_threshold ranges over 1..MaxThreshold
MaxTimeout == 2      \* reset_timeout ranges over 0..MaxTimeout
MaxFailures == 4     \* record_failure calls counted by one breaker
MaxClock == 4        \* the HTTP client's clock runs over 0..MaxClock
MaxCapacity == 2     \* a TokenBucket's capacity ranges over 1..MaxCapacity
MaxPeriod == 2       \* 1 / refill_rate ranges over 1..MaxPeriod
MaxAcquires == 3     \* acquire calls made on one TokenBucket
MaxSleep == 2        \* time.sleep(0.01) lasts 1..MaxSleep units of time
MaxWait == 1         \* a backoff or Retry-After wait lasts 0..MaxWait units of time
NTasks == 2          \* tasks of the event loop that call NSEAsyncHttpClient.get
MaxTotal == 3        \* requests one RequestBatcher is given between two reset_stats()

AttemptCeiling == 5      \* stop_after_attempt(5)
DefaultThreshold == 50   \* CircuitBreaker(failure_threshold=50)

None == -1           \* Python's None in the data / error fields

Params == 1..MaxParam
Netlocs == {"www.nseindia.com", "archives.nseindia.com"}
Schemes == {"https", "http"}
Strategies == {"sequential", "parallel", "adaptive"}

VARIABLES
    \* ---- RequestBatcher, synchronous path
    requests,                \* the list given to batch_requests
    strategy,                \* self.strategy
    max_batch_size,          \* self.max_batch_size
    max_concurrent_batches,  \* self.max_concurrent_batches
    bpc,                     \* where the calling thread is in batch_requests
    batches,                 \* the chunks made by _create_batches
    cur,                     \* sequential paths: index of the chunk being run
    futures,                 \* per chunk: state, position, results so far
    par_results,             \* _process_batch_parallel's pre-allocated list
    ret,                     \* the list batch_requests returned
    stats,                   \* self._stats
    elapsed,                 \* history: the elapsed time of the last call that ran, None before it
    performed,               \* history: what perform did for each input index
    outOfOrder,              \* history: a chunk was collected before an earlier one
    \* ---- RequestBatcher, asynchronous path
    max_concurrency,         \* abatch_requests' max_concurrency argument (None or a number)
    apc,                     \* where the caller of abatch_requests is
    task,                    \* per request: state of its run_one task
    remaining,               \* per running task: time left until its coroutine ends
    durations,               \* per request: how long its coroutine takes
    semaphore,               \* value of the asyncio.Semaphore
    results,                 \* abatch_requests' results list
    aclock,                  \* time elapsed since abatch_requests was called
    \* ---- NSEConnectionPool
    session_ttl,             \* self.session_ttl
    max_sessions,            \* self.max_sessions
    clients,                 \* self._clients: host -> entries, in insertion order
    aclients,                \* self._aclients
    now,                     \* time.time()
    constructed,             \* every client object constructed so far
    closeCalls,              \* per client object: how often its close() was called
    pcall,                   \* history: the last pool operation and what it did
    ncalls,                  \* history: get_client calls so far, per host
    nops,                    \* history: pool operations so far
    pstats,                  \* what the last get_pool_stats call returned
    inflight,                \* clients with a request of some caller in flight
    \* ---- the process-wide pool: get_connection_pool / reset_connection_pool
    _connection_pool,        \* the module global: None or a pool object
    _pool_lock,              \* the thread holding the lock, 0 if free
    gpc,                     \* per thread: where it is in its call
    pools,                   \* every NSEConnectionPool constructed so far
    gret,                    \* per thread: what its last get_connection_pool returned
    resetEvents,             \* history: reset_connection_pool entries and exits
    gstart,                  \* history: per thread, resetEvents when its call began
    greturns,                \* history: returns of calls no reset overlapped
    gcalls,                  \* history: calls begun so far
    \* ---- the locks of the core
    held,                    \* per thread: the locks it holds, in the order taken
    lscript,                 \* per thread: the lock operations its call has yet to do
    \* ---- threads calling batch_requests on one batcher
    bcall,                   \* per thread: where its call is, its input length, its successes
    slock,                   \* the thread holding the batcher's self._lock, 0 if free
    finished,                \* history: input lengths and successes of the calls completed
    \* ---- CircuitBreaker
    failure_threshold,       \* self.failure_threshold
    reset_timeout,           \* self.reset_timeout
    _failures,               \* self._failures
    _opened_at,              \* self._opened_at: None or a time
    clock,                   \* time.time() as the HTTP client's parts read it
    allowed,                 \* the last allow() call: whether there was one, its value, when
    bcalls,                  \* history (threads, sync client): the last method called on the breaker, the callers
                             \* allow() has let through since the breaker last changed, and
                             \* whether a failure was recorded on an open breaker past its timeout
    lastFailure,             \* history: time of the last record_failure, None before it
    \* ---- TokenBucket
    capacity,                \* self.capacity
    refill_period,           \* 1 / self.refill_rate: the time one token takes to refill
    tokens,                  \* self.tokens
    _last_refill,            \* self._last_refill
    acquiring,               \* the acquire call in progress: state, sleeps, time of last try
    acquired,                \* history: per finished acquire call, when it returned and its sleeps
    tacq,                    \* per thread, its acquire(cost) call: state and cost
    taken,                   \* history: per thread, the tokens its acquire calls have taken
    \* ---- NSEHttpClient: one caller of get / get_json
    rpc,                     \* where the caller is in its call
    rop,                     \* the operation called: "get" or "get_json"
    attempt,                 \* tenacity's attempt number within the call
    sent,                    \* history: transport calls made for the request in this call
    side,                    \* history: what else the call did: "primed", "rebuilt"
    last,                    \* the outcome of the attempt just made, Nothing during one
    returned,                \* what _request_with_retry gave back: a response or an exception
    delivered,               \* what the caller of the operation got
    onlyErrors,              \* history: every attempt so far raised a transport error
    onlyRetryable,           \* history: every attempt so far returned a retryable status
    nrequests,               \* history: calls begun so far
    raised,                  \* history: attempts of the call whose transport call raised
    before,                  \* history: the breaker's failure count when the call began
    \* ---- NSEAsyncHttpClient: the tasks of one event loop, each calling get
    tpc,                     \* per task: where it is suspended, or the sleep it is in
    tattempt,                \* per task: tenacity's attempt number
    tafter,                  \* per task: what follows its priming: the request or the return
    running,                 \* the task that holds the loop's thread in a blocking call, or None
    _primed,                 \* self._primed
    _prime_lock,             \* self._prime_lock: the task holding it, or None
    phist                    \* history of the priming up to the first 403: GETs sent, one failed, who waited

\* used by both paths
sharedVars == <<requests, max_batch_size, max_concurrent_batches, ret, stats, elapsed,
               performed>>
batchOnly == <<strategy, bpc, batches, cur, futures, par_results, outOfOrder>>
asyncOnly == <<max_concurrency, apc, task, remaining, durations, semaphore, results, aclock>>

poolVars == <<session_ttl, max_sessions, clients, aclients, now, constructed,
              closeCalls, pcall, ncalls, nops, pstats, inflight>>

globalVars == <<_connection_pool, _pool_lock, gpc, pools, gret, resetEvents,
                gstart, greturns, gcalls>>

breakerVars == <<failure_threshold, reset_timeout, _failures, _opened_at, allowed, bcalls,
                 lastFailure>>

bucketVars == <<capacity, refill_period, tokens, _last_refill, acquiring, acquired, tacq, taken>>

reqVars == <<rpc, rop, attempt, sent, side, last, returned, delivered, onlyErrors,
             onlyRetryable, nrequests, raised, before>>

taskVars == <<tpc, tattempt, tafter, running, _primed, _prime_lock, phist>>

httpVars == <<clock, breakerVars, bucketVars, reqVars, taskVars>>

lockVars == <<held, lscript>>

callVars == <<bcall, slock, finished>>

vars == <<sharedVars, batchOnly, asyncOnly, poolVars, globalVars, httpVars, lockVars, callVars>>

\* what the actions of one component leave alone
batchForeign == <<asyncOnly, poolVars, globalVars, httpVars, lockVars, callVars>>
asyncForeign == <<batchOnly, poolVars, globalVars, httpVars, lockVars, callVars>>
poolForeign == <<sharedVars, batchOnly, asyncOnly, globalVars, httpVars, lockVars, callVars>>
globalForeign == <<sharedVars, batchOnly, asyncOnly, poolVars, httpVars, lockVars, callVars>>
httpForeign == <<sharedVars, batchOnly, asyncOnly, poolVars, globalVars, taskVars, lockVars, callVars>>
\* what the tasks calling the asynchronous client leave alone
taskForeign == <<reqVars, sharedVars, batchOnly, asyncOnly, poolVars, globalVars, lockVars, callVars>>
\* what a CircuitBreaker or a TokenBucket used on its own leaves alone
partForeign == <<reqVars, httpForeign>>

\* ------------------------------------------------------------- helpers
Min(a, b) == IF a < b THEN a ELSE b

RECURSIVE SeqsUpTo(_, _)
SeqsUpTo(S, n) ==
    IF n = 0 THEN {<<>>}
    ELSE LET shorter == SeqsUpTo(S, n - 1)
         IN  shorter \cup {Append(s, x) : s \in {t \in shorter : Len(t) = n - 1}, x \in S}

RECURSIVE Concat(_)
Concat(ss) == IF ss = <<>> THEN <<>> ELSE Head(ss) \o Concat(Tail(ss))

\* ------------------------------------------------- the perform function
\* The caller-supplied request_func: it either returns data computed from the
\* parameters or raises an exception whose text names them.
PerformData(p) == p * 2
ExceptionText(p) == 100 + p
PerformOutcomes(p) ==
    {[raised |-> FALSE, value |-> PerformData(p)],
     [raised |-> TRUE, value |-> ExceptionText(p)]}

\* BatchResult(success=True, data=data) / BatchResult(success=False, data=None, error=str(e))
BatchResultOf(o) ==
    IF o.raised
    THEN [success |-> FALSE, data |-> None, error |-> o.value, retries |-> 0]
    ELSE [success |-> TRUE, data |-> o.value, error |-> None, retries |-> 0]

\* a slot of a results list that holds None instead of a BatchResult
NoResult == [success |-> FALSE, data |-> None, error |-> None, retries |-> None]

\* ------------------------------------------------------ _create_batches
NumBatches(n, size) == (n + size - 1) \div size

_create_batches(reqs, size) ==
    [k \in 1..NumBatches(Len(reqs), size) |->
        SubSeq(reqs, (k - 1) * size + 1, Min(k * size, Len(reqs)))]

\* the input index of item pos of chunk k
InputIndex(k, pos) == (k - 1) * max_batch_size + pos

\* a float that is a quotient of two counts, kept as the pair of the two
Ratio(a, b) == <<a, b>>

\* BatchStats(0, 0, 0, 0.0, 0.0, 0.0)
NoStats == [total_requests |-> 0, successful_requests |-> 0, failed_requests |-> 0,
            total_duration |-> 0, avg_request_time |-> Ratio(0, 1),
            requests_per_second |-> Ratio(0, 1)]

NotPerformed == [calls |-> 0, param |-> None, raised |-> FALSE, value |-> None]

\* ------------------------------------------------- _process_batch_sequential
\* One pass of the loop body over batch[pos]: the position the loop goes to next.
NextPos(pos, batch, o) == pos + 1

\* "except Exception as e": the handler around the call of request_func takes
\* every exception the function raises.
CatchesNothing(o) == FALSE
Catches(o) == TRUE

\* The future of a chunk after perform was called on its item at f.pos with
\* outcome o. An exception the handler does not take ends the chunk: it becomes
\* the exception of the chunk's future.
ProcessItem(f, batch, o) ==
    IF o.raised /\ ~Catches(o)
    THEN [f EXCEPT !.state = "failed", !.error = o.value]
    ELSE LET np == NextPos(f.pos, batch, o)
         IN  [f EXCEPT !.pos = np,
                       !.results = Append(@, BatchResultOf(o)),
                       !.state = IF np > Len(batch) THEN "finished" ELSE "running"]

RecordPerform(k, pos, p, o) ==
    [performed EXCEPT ![InputIndex(k, pos)] =
        [calls |-> @.calls + 1, param |-> p, raised |-> o.raised, value |-> o.value]]

\* ------------------------------------------------- _process_batch_parallel
EmptySlot == [filled |-> FALSE, items |-> <<>>]

\* all_results[index] = batch_results
StoreInCompletionOrder(res, index, batch_results) ==
    LET free == {i \in 1..Len(res) : ~res[i].filled}
        first == CHOOSE i \in free : \A j \in free : i <= j
    IN  [res EXCEPT ![first] = [filled |-> TRUE, items |-> batch_results]]
StoreResult(res, index, batch_results) ==
    [res EXCEPT ![index] = [filled |-> TRUE, items |-> batch_results]]

\* what as_completed's loop stores for a future: its result, or one failed
\* BatchResult per request of the chunk when future.result() raises
FutureResults(f, batch) ==
    IF f.state = "failed"
    THEN [j \in 1..Len(batch) |->
            [success |-> FALSE, data |-> None, error |-> f.error, retries |-> 0]]
    ELSE f.results

\* "for batch_results in all_results: if batch_results: extend"
Flatten(res) ==
    Concat([i \in 1..Len(res) |->
              IF res[i].filled /\ res[i].items # <<>> THEN res[i].items ELSE <<>>])

Running == {k \in 1..Len(futures) : futures[k].state = "running"}

WorkerAlwaysFree == TRUE

\* ThreadPoolExecutor(max_workers=self.max_concurrent_batches): a worker thread
\* is idle or can still be started
WorkerFree == Cardinality(Running) < max_concurrent_batches

\* ------------------------------------------------------------ statistics
\* "sum(1 for r in results if r and r.success)": a None entry counts as neither
UpdatedStats(s, n, rs) ==
    [total_requests |-> s.total_requests + n,
     successful_requests |-> s.successful_requests
                             + Cardinality({i \in 1..Len(rs) : rs[i] # NoResult /\ rs[i].success}),
     failed_requests |-> s.failed_requests
                         + Cardinality({i \in 1..Len(rs) : rs[i] # NoResult /\ ~rs[i].success}),
     total_duration |-> s.total_duration,
     avg_request_time |-> s.avg_request_time,
     requests_per_second |-> s.requests_per_second]

\* the lines of batch_requests that record the duration d of a call of n requests
WithDuration(s, n, d) ==
    [s EXCEPT !.total_duration = @ + d,
              !.avg_request_time = Ratio(d, n),
              !.requests_per_second = IF d > 0 THEN Ratio(n, d) ELSE Ratio(0, 1)]

\* ------------------------------------------------------------------ Init
BatchIdle ==
    /\ bpc = "idle"
    /\ batches = <<>>
    /\ cur = 0
    /\ futures = <<>>
    /\ par_results = <<>>
    /\ ret = <<>>
    /\ stats = NoStats
    /\ elapsed = None
    /\ performed = [i \in 1..Len(requests) |-> NotPerformed]
    /\ outOfOrder = FALSE

AsyncIdle ==
    /\ apc = "idle"
    /\ task = <<>>
    /\ remaining = <<>>
    /\ semaphore = 0
    /\ results = <<>>
    /\ aclock = 0

\* a pool nobody uses
NoCall == [op |-> "none", scheme |-> "", netloc |-> "", ret |-> None, path |-> "",
           purged |-> {}, closeError |-> FALSE]

\* no get_pool_stats call was made
NoPoolStats == [sync_clients |-> None, async_clients |-> None, hosts_sync |-> None,
                hosts_async |-> None, max_per_host |-> None, ttl_secs |-> None]

PoolEmpty ==
    /\ pstats = NoPoolStats
    /\ clients = <<>>
    /\ aclients = <<>>
    /\ now = 0
    /\ constructed = <<>>
    /\ closeCalls = <<>>
    /\ pcall = NoCall
    /\ ncalls = [h \in Netlocs |-> 0]
    /\ nops = 0
    /\ inflight = {}

PoolUnused ==
    /\ session_ttl = 1
    /\ max_sessions = 1
    /\ PoolEmpty

Threads == 1..NThreads

NoBatchCall == [pc |-> "idle", n |-> 0, ok |-> 0]

\* the module as imported: no pool yet, the lock free, no thread in a call
GlobalUnset ==
    /\ _connection_pool = None
    /\ _pool_lock = 0
    /\ gpc = [t \in Threads |-> "idle"]
    /\ pools = <<>>
    /\ gret = [t \in Threads |-> 0]
    /\ resetEvents = 0
    /\ gstart = [t \in Threads |-> 0]
    /\ greturns = {}
    /\ gcalls = 0
    /\ held = [t \in Threads |-> <<>>]
    /\ lscript = [t \in Threads |-> <<>>]
    /\ bcall = [t \in Threads |-> NoBatchCall]
    /\ slock = 0
    /\ finished = [calls |-> 0, total |-> 0, ok |-> 0]

NotAsked == [called |-> FALSE, value |-> FALSE, at |-> 0]

NoCalls == [op |-> "none", passed |-> {}, retrial |-> FALSE]

\* CircuitBreaker.__post_init__
BreakerNew ==
    /\ _failures = 0
    /\ _opened_at = None
    /\ allowed = NotAsked
    /\ bcalls = NoCalls
    /\ lastFailure = None

NotAcquiring == [state |-> "idle", sleeps |-> 0, tried |-> 0]

NoAcquirers == [t \in Threads |-> [state |-> "idle", cost |-> 0]]

\* TokenBucket.__init__, but for capacity and rate: the bucket starts full
BucketNew ==
    /\ tokens = capacity
    /\ _last_refill = clock
    /\ acquiring = NotAcquiring
    /\ acquired = <<>>
    /\ tacq = NoAcquirers
    /\ taken = [t \in Threads |-> 0]

BreakerUnused ==
    /\ failure_threshold = 5
    /\ reset_timeout = 30
    /\ BreakerNew

BucketUnused ==
    /\ capacity = 1
    /\ refill_period = 1
    /\ BucketNew

Nothing == [kind |-> "none", exc |-> "", status |-> 0, ctype |-> "", attempt |-> 0]

NoSide == {}

Tasks == 1..NTasks

\* no task uses an asynchronous client
NoPriming == [sent |-> 0, failed |-> FALSE, waited |-> {}, forbidden |-> FALSE]

NoTasks ==
    /\ tpc = [t \in Tasks |-> "done"]
    /\ tattempt = [t \in Tasks |-> 0]
    /\ tafter = [t \in Tasks |-> "request"]
    /\ running = None
    /\ _primed = FALSE
    /\ _prime_lock = None
    /\ phist = NoPriming

\* no call of the client is in progress
ClientIdle ==
    /\ rpc = "idle"
    /\ rop = "get"
    /\ attempt = 0
    /\ sent = 0
    /\ side = NoSide
    /\ last = Nothing
    /\ returned = Nothing
    /\ delivered = Nothing
    /\ onlyErrors = TRUE
    /\ onlyRetryable = TRUE
    /\ nrequests = 0
    /\ raised = 0
    /\ before = 0

\* no HTTP client exists
HttpUnused ==
    /\ clock = 0
    /\ BreakerUnused
    /\ BucketUnused
    /\ ClientIdle
    /\ NoTasks

\* the parts of the program other than the HTTP client, at rest
RestIdle ==
    /\ requests = <<>>
    /\ strategy = "adaptive"
    /\ max_batch_size = 1
    /\ max_concurrent_batches = 1
    /\ max_concurrency = None
    /\ durations = <<>>
    /\ BatchIdle
    /\ AsyncIdle
    /\ PoolUnused
    /\ GlobalUnset

BatchInit ==
    /\ PoolUnused
    /\ requests \in SeqsUpTo(Params, MaxReq)
    /\ strategy \in Strategies
    /\ max_batch_size \in 1..MaxBatch
    /\ max_concurrent_batches \in 1..MaxWorkers
    /\ BatchIdle
    /\ max_concurrency = None
    /\ durations = <<>>
    /\ AsyncIdle
    /\ GlobalUnset
    /\ HttpUnused

Init == BatchInit

\* --------------------------------------------------------- batch_requests
AdaptiveAlwaysPool(n) == strategy \in {"parallel", "adaptive"}

\* the dispatch on the strategy, n the number of chunks: PARALLEL, and ADAPTIVE
\* with few chunks (_process_batch_adaptive), run them in the worker pool
UsesPool(n) ==
    \/ strategy = "parallel"
    \/ strategy = "adaptive" /\ n <= max_concurrent_batches

\* batch_requests up to the dispatch on the strategy (lines 89-118).
BatchCall ==
    /\ bpc = "idle"
    /\ IF requests = <<>>
       THEN /\ bpc' = "done"
            /\ ret' = <<>>
            /\ UNCHANGED <<batches, cur, futures, par_results>>
       ELSE LET bs == _create_batches(requests, max_batch_size)
                parallel == UsesPool(Len(bs))
            IN  /\ batches' = bs
                /\ futures' = [k \in 1..Len(bs) |->
                                 [state |-> "queued", pos |-> 1, results |-> <<>>,
                                  error |-> None]]
                /\ IF parallel
                   THEN /\ bpc' = "parallel"
                        /\ par_results' = [k \in 1..Len(bs) |-> EmptySlot]
                        /\ cur' = 0
                   ELSE /\ bpc' = IF strategy = "sequential" THEN "sequential"
                                  ELSE "sequential_adaptive"
                        /\ par_results' = <<>>
                        /\ cur' = 1
                /\ ret' = ret
    /\ UNCHANGED batchForeign
    /\ UNCHANGED <<requests, strategy, max_batch_size, max_concurrent_batches,
                   stats, elapsed, performed, outOfOrder>>

\* SEQUENTIAL and the sequential branch of ADAPTIVE: the calling thread performs
\* the next request of the current chunk, and moves to the next chunk after the
\* last one (all_results.extend(batch_results)).
SeqStep ==
    /\ bpc \in {"sequential", "sequential_adaptive"}
    /\ cur <= Len(batches)
    /\ LET f == futures[cur]
           p == batches[cur][f.pos]
       IN  \E o \in PerformOutcomes(p) :
              LET g == ProcessItem(f, batches[cur], o)
              IN  /\ futures' = [futures EXCEPT ![cur] = g]
                  /\ performed' = RecordPerform(cur, f.pos, p, o)
                  /\ cur' = IF g.state = "finished" THEN cur + 1 ELSE cur
                  /\ bpc' = IF g.state = "failed" THEN "raised" ELSE bpc
    /\ UNCHANGED batchForeign
    /\ UNCHANGED <<requests, strategy, max_batch_size, max_concurrent_batches,
                   batches, par_results, ret, stats, elapsed, outOfOrder>>

\* A worker thread of the ThreadPoolExecutor takes the oldest queued chunk.
WorkerStart(k) ==
    /\ bpc = "parallel"
    /\ futures[k].state = "queued"
    /\ \A j \in 1..(k - 1) : futures[j].state # "queued"
    /\ WorkerFree
    /\ futures' = [futures EXCEPT ![k].state = "running"]
    /\ UNCHANGED batchForeign
    /\ UNCHANGED <<requests, strategy, max_batch_size, max_concurrent_batches, bpc,
                   batches, cur, par_results, ret, stats, elapsed, performed, outOfOrder>>

\* The worker running chunk k performs the chunk's next request.
WorkerStep(k) ==
    /\ bpc = "parallel"
    /\ futures[k].state = "running"
    /\ LET f == futures[k]
           p == batches[k][f.pos]
       IN  \E o \in PerformOutcomes(p) :
              /\ futures' = [futures EXCEPT ![k] = ProcessItem(f, batches[k], o)]
              /\ performed' = RecordPerform(k, f.pos, p, o)
    /\ UNCHANGED batchForeign
    /\ UNCHANGED <<requests, strategy, max_batch_size, max_concurrent_batches, bpc,
                   batches, cur, par_results, ret, stats, elapsed, outOfOrder>>

\* as_completed hands the calling thread a finished future, in any order.
Collect(k) ==
    /\ bpc = "parallel"
    /\ futures[k].state \in {"finished", "failed"}
    /\ futures' = [futures EXCEPT ![k].state = "collected"]
    /\ par_results' = StoreResult(par_results, k, FutureResults(futures[k], batches[k]))
    /\ outOfOrder' = (outOfOrder \/ \E j \in 1..(k - 1) : futures[j].state # "collected")
    /\ UNCHANGED batchForeign
    /\ UNCHANGED <<requests, strategy, max_batch_size, max_concurrent_batches, bpc,
                   batches, cur, ret, stats, elapsed, performed>>

\* The strategy's results are complete: update the statistics and return.
BatchReturn ==
    /\ \/ bpc = "parallel" /\ \A k \in 1..Len(futures) : futures[k].state = "collected"
       \/ bpc \in {"sequential", "sequential_adaptive"} /\ cur > Len(batches)
    /\ LET all_results ==
               IF bpc = "parallel" THEN Flatten(par_results)
               ELSE Concat([k \in 1..Len(futures) |-> futures[k].results])
       IN  /\ ret' = all_results
           /\ \E d \in 0..MaxDur :
                 /\ elapsed' = d
                 /\ stats' = WithDuration(UpdatedStats(stats, Len(requests), all_results),
                                          Len(requests), d)
    /\ bpc' = "done"
    /\ UNCHANGED batchForeign
    /\ UNCHANGED <<requests, strategy, max_batch_size, max_concurrent_batches,
                   batches, cur, futures, par_results, performed, outOfOrder>>

BatchNext ==
    \/ BatchCall
    \/ SeqStep
    \/ \E k \in 1..Len(futures) : WorkerStart(k)
    \/ \E k \in 1..Len(futures) : WorkerStep(k)
    \/ \E k \in 1..Len(futures) : Collect(k)
    \/ BatchReturn

Next == BatchNext

Spec == Init /\ [][Next]_vars

\* ---- a PARALLEL call with its threads scheduled
\* The parameters of the requests play no part in how the chunks are scheduled:
\* every request carries the same ones, and perform returns or raises on each.
ParallelInit ==
    /\ BatchInit
    /\ strategy = "parallel"
    /\ \A i \in 1..Len(requests) : requests[i] = 1

ParallelNext ==
    \/ BatchCall
    \/ \E k \in 1..Len(futures) : WorkerStart(k)
    \/ \E k \in 1..Len(futures) : WorkerStep(k)
    \/ \E k \in 1..Len(futures) : Collect(k)
    \/ BatchReturn

\* The threads of a call are scheduled: the workers of the pool and the calling
\* thread go on whenever they can, and perform returns or raises.
ParallelFairness ==
    /\ WF_vars(\E k \in 1..Len(futures) : WorkerStart(k))
    /\ WF_vars(\E k \in 1..Len(futures) : WorkerStep(k))
    /\ WF_vars(\E k \in 1..Len(futures) : Collect(k))
    /\ WF_vars(BatchReturn)

SpecParallelFair == ParallelInit /\ [][ParallelNext]_vars /\ ParallelFairness

\* =========================================================================
\* abatch_requests: one event loop, one run_one task per request
\* =========================================================================

\* requests as the tests build them: [{"value": i} for i in range(n)]
AsyncRequests(n) == [i \in 1..n |-> ((i - 1) % MaxParam) + 1]

\* limit = max_concurrency or (self.max_concurrent_batches * self.max_batch_size)
LimitIgnoringOverride == max_concurrent_batches * max_batch_size
Limit ==
    IF max_concurrency = None \/ max_concurrency = 0
    THEN max_concurrent_batches * max_batch_size
    ELSE max_concurrency

\* "except Exception as e" inside run_one
ACatchesNothing(o) == FALSE
ACatches(o) == TRUE

\* results[idx] = BatchResult(...)
StoreAt(rs, idx, r) == [rs EXCEPT ![idx] = r]

InFlight == {i \in 1..Len(task) : task[i] = "running"}

AsyncInit ==
    /\ \E n \in 0..MaxAsyncReq :
          /\ requests = AsyncRequests(n)
          /\ durations \in [1..n -> 1..MaxDur]
    /\ max_batch_size \in 1..MaxBatch
    /\ max_concurrent_batches \in 1..MaxWorkers
    /\ max_concurrency \in {None} \cup 1..MaxConc
    /\ strategy = "adaptive"
    /\ BatchIdle
    /\ AsyncIdle
    /\ PoolUnused
    /\ GlobalUnset
    /\ HttpUnused

\* abatch_requests up to the gather (lines 156-175): the tasks are created.
ACall ==
    /\ apc = "idle"
    /\ IF requests = <<>>
       THEN /\ apc' = "done"
            /\ ret' = <<>>
            /\ UNCHANGED <<task, remaining, semaphore, results>>
       ELSE /\ apc' = "gather"
            /\ semaphore' = Limit
            /\ results' = [i \in 1..Len(requests) |-> NoResult]
            /\ task' = [i \in 1..Len(requests) |-> "waiting"]
            /\ remaining' = [i \in 1..Len(requests) |-> 0]
            /\ ret' = ret
    /\ UNCHANGED asyncForeign
    /\ UNCHANGED <<requests, max_batch_size, max_concurrent_batches, stats, elapsed, performed,
                   max_concurrency, durations, aclock>>

\* "async with semaphore": task i enters and calls request_coro_func.
AAcquire(i) ==
    /\ apc = "gather"
    /\ task[i] = "waiting"
    /\ semaphore > 0
    /\ semaphore' = semaphore - 1
    /\ task' = [task EXCEPT ![i] = "running"]
    /\ remaining' = [remaining EXCEPT ![i] = durations[i]]
    /\ UNCHANGED asyncForeign
    /\ UNCHANGED <<requests, max_batch_size, max_concurrent_batches, ret, stats, elapsed,
                   performed, max_concurrency, apc, durations, results, aclock>>

\* Time passes while every task is suspended: no task can enter the semaphore
\* and no running coroutine is due.
ATick ==
    /\ apc = "gather"
    /\ InFlight # {}
    /\ \A i \in InFlight : remaining[i] > 0
    /\ semaphore = 0 \/ \A i \in 1..Len(task) : task[i] # "waiting"
    /\ remaining' = [i \in 1..Len(task) |->
                       IF i \in InFlight THEN remaining[i] - 1 ELSE remaining[i]]
    /\ aclock' = aclock + 1
    /\ UNCHANGED asyncForeign
    /\ UNCHANGED <<requests, max_batch_size, max_concurrent_batches, ret, stats, elapsed,
                   performed, max_concurrency, apc, task, durations, semaphore, results>>

\* The coroutine of task i ends, by returning or by raising; run_one stores the
\* BatchResult and leaves the semaphore. An exception run_one does not take
\* goes through gather to the caller of abatch_requests.
AComplete(i) ==
    /\ apc = "gather"
    /\ task[i] = "running"
    /\ remaining[i] = 0
    /\ \E o \in PerformOutcomes(requests[i]) :
          /\ performed' = [performed EXCEPT ![i] =
                 [calls |-> @.calls + 1, param |-> requests[i],
                  raised |-> o.raised, value |-> o.value]]
          /\ IF o.raised /\ ~ACatches(o)
             THEN /\ apc' = "raised"
                  /\ results' = results
             ELSE /\ apc' = apc
                  /\ results' = StoreAt(results, i, BatchResultOf(o))
    /\ semaphore' = semaphore + 1
    /\ task' = [task EXCEPT ![i] = "done"]
    /\ UNCHANGED asyncForeign
    /\ UNCHANGED <<requests, max_batch_size, max_concurrent_batches, ret, stats, elapsed,
                   max_concurrency, remaining, durations, aclock>>

\* gather is done: update the statistics and return results (lines 176-183).
AReturn ==
    /\ apc = "gather"
    /\ \A i \in 1..Len(task) : task[i] = "done"
    /\ stats' = UpdatedStats(stats, Len(requests), results)
    /\ elapsed' = aclock
    /\ ret' = results
    /\ apc' = "done"
    /\ UNCHANGED asyncForeign
    /\ UNCHANGED <<requests, max_batch_size, max_concurrent_batches, performed,
                   max_concurrency, task, remaining, durations, semaphore, results, aclock>>

AsyncNext ==
    \/ ACall
    \/ \E i \in 1..Len(task) : AAcquire(i)
    \/ ATick
    \/ \E i \in 1..Len(task) : AComplete(i)
    \/ AReturn

SpecAsync == AsyncInit /\ [][AsyncNext]_vars

\* =========================================================================
\* NSEConnectionPool
\* =========================================================================

\* the base URLs given to get_client / get_async_client
Urls == [scheme : Schemes, netloc : Netlocs]
HttpsUrls == {u \in Urls : u.scheme = "https"}

\* _cleanup_expired's test: (now - info['created']) >= self.session_ttl
IsExpiredInverted(info, t) == (t - info.created) < session_ttl
IsExpired(info, t) == (t - info.created) >= session_ttl

\* _is_valid: (now - created) < self.session_ttl
NeverValid(info, t) == FALSE
_is_valid(info, t) == (t - info.created) < session_ttl

\* NSEHttpClient has a close method; NSEAsyncHttpClient has aclose only, so
\* getattr(client, "close", None) is None for it.
HasCloseAlways(kind) == TRUE
HasClose(kind) == kind = "sync"

\* "except Exception: pass" around the close call
SwallowsNothing == FALSE
SwallowsCloseError == TRUE

KindOf(c) == constructed[c].kind

EntriesOf(m) == UNION {{m[h][i] : i \in 1..Len(m[h])} : h \in DOMAIN m}

\* the entries _cleanup_expired deletes at time t
ExpiredEntries(m, t) == {e \in EntriesOf(m) : IsExpired(e, t)}

\* the bucket map after _cleanup_expired ran at time t
_cleanup_expired(m, t) ==
    [h \in DOMAIN m |-> SelectSeq(m[h], LAMBDA e : ~IsExpired(e, t))]

\* "if host not in self._clients: self._clients[host] = {}"
WithHost(m, host) ==
    [h \in DOMAIN m \cup {host} |-> IF h \in DOMAIN m THEN m[h] ELSE <<>>]

\* "for cid, info in bucket.items(): if self._is_valid(info)": the first hit, or 0
FirstValid(bucket, t) ==
    LET hits == {i \in 1..Len(bucket) : _is_valid(bucket[i], t)}
    IN  IF hits = {} THEN 0 ELSE CHOOSE i \in hits : \A j \in hits : i <= j

\* min(bucket.keys(), key=lambda k: bucket[k]['last_used']): the first minimum
LruIndex(bucket) ==
    LET least == {i \in 1..Len(bucket) :
                     \A j \in 1..Len(bucket) : bucket[i].last_used <= bucket[j].last_used}
    IN  CHOOSE i \in least : \A j \in least : i <= j

\* bucket[cid] = {...}: a key the dict already holds keeps its place and gets
\* the new value
InsertEntry(bucket, e) ==
    LET same == {i \in 1..Len(bucket) : bucket[i].id = e.id}
    IN  IF same = {} THEN Append(bucket, e)
        ELSE [bucket EXCEPT ![CHOOSE i \in same : TRUE] = e]

HasRoomAlways(bucket) == TRUE

\* "if len(bucket) < self.max_sessions"
RoomForOneMore(bucket) == Len(bucket) <= max_sessions

HasRoom(bucket) == Len(bucket) < max_sessions

\* info['last_used'] = time.time()
LastUsedKept(bucket, i, t) == bucket
BumpLastUsed(bucket, i, t) == [bucket EXCEPT ![i].last_used = t]

\* get_client / get_async_client on bucket map m. The cleanup reads the clock
\* at t1; the validity test and the timestamps written read it again, at t2.
GetFrom(m, host, t1, t2) ==
    LET m1 == _cleanup_expired(WithHost(m, host), t1)
        bucket == m1[host]
        v == FirstValid(bucket, t2)
        new == Len(constructed) + 1
    IN  IF v > 0
        THEN [map |-> [m1 EXCEPT ![host] = BumpLastUsed(bucket, v, t2)],
              ret |-> bucket[v].client, path |-> "reuse"]
        ELSE IF HasRoom(bucket)
        THEN [map |-> [m1 EXCEPT ![host] =
                          InsertEntry(bucket, [id |-> Len(bucket), client |-> new,
                                               created |-> t2, last_used |-> t2])],
              ret |-> new, path |-> "create"]
        ELSE [map |-> [m1 EXCEPT ![host] = BumpLastUsed(bucket, LruIndex(bucket), t2)],
              ret |-> bucket[LruIndex(bucket)].client, path |-> "lru"]

\* close() is called on these clients
Closed(entries) == {e.client : e \in {x \in entries : HasClose(KindOf(x.client))}}

CloseCallsAfter(closed, grown) ==
    [c \in 1..grown |->
        IF c > Len(closeCalls) THEN 0
        ELSE closeCalls[c] + (IF c \in closed THEN 1 ELSE 0)]

PoolInit ==
    /\ session_ttl \in 1..MaxTTL
    /\ max_sessions \in 1..MaxSessions
    /\ PoolEmpty
    /\ requests = <<>>
    /\ strategy = "adaptive"
    /\ max_batch_size = 1
    /\ max_concurrent_batches = 1
    /\ max_concurrency = None
    /\ durations = <<>>
    /\ BatchIdle
    /\ AsyncIdle
    /\ GlobalUnset
    /\ HttpUnused

\* the clock advances between pool operations
Tick ==
    /\ now < MaxTime
    /\ now' = now + 1
    /\ UNCHANGED poolForeign
    /\ UNCHANGED inflight
    /\ UNCHANGED <<session_ttl, max_sessions, clients, aclients, constructed,
                   closeCalls, pcall, ncalls, nops, pstats>>

\* whether a close() called on one of these entries' clients may raise
CloseErrors(entries) == {FALSE} \cup {Closed(entries) # {}}

\* One call of get_client (kind "sync") or get_async_client (kind "async") on
\* bucket map m, all of it under self._lock. A close() that raises inside the
\* cleanup (closeError) is swallowed; were it not, the call would end there
\* with the exception.
GetCall(u, kind, m, t2, closeError) ==
    LET gone == ExpiredEntries(WithHost(m, u.netloc), now)
        r == GetFrom(m, u.netloc, now, t2)
        made == IF r.path = "create"
                THEN Append(constructed, [kind |-> kind, scheme |-> u.scheme,
                                          netloc |-> u.netloc, born |-> t2])
                ELSE constructed
    IN  IF closeError /\ ~SwallowsCloseError
        THEN [map |-> WithHost(m, u.netloc), made |-> constructed,
              closes |-> closeCalls,
              call |-> [NoCall EXCEPT !.op = "raised", !.scheme = u.scheme,
                                      !.netloc = u.netloc,
                                      !.path = "raised", !.closeError = TRUE]]
        ELSE [map |-> r.map, made |-> made,
              closes |-> CloseCallsAfter(Closed(gone), Len(made)),
              call |-> [op |-> IF kind = "sync" THEN "get_client"
                               ELSE "get_async_client",
                        scheme |-> u.scheme, netloc |-> u.netloc,
                        ret |-> r.ret, path |-> r.path,
                        purged |-> {e.client : e \in gone},
                        closeError |-> closeError]]

GetClient(u) ==
    /\ nops < MaxOps
    /\ \E t2 \in now..Min(now + MaxDelay, MaxTime) :
          \E closeError \in CloseErrors(ExpiredEntries(clients, now)) :
             LET g == GetCall(u, "sync", clients, t2, closeError)
             IN  /\ clients' = g.map
                 /\ constructed' = g.made
                 /\ closeCalls' = g.closes
                 /\ pcall' = g.call
                 /\ now' = t2
    /\ ncalls' = [ncalls EXCEPT ![u.netloc] = @ + 1]
    /\ nops' = nops + 1
    /\ UNCHANGED poolForeign
    /\ UNCHANGED inflight
    /\ UNCHANGED <<session_ttl, max_sessions, aclients, pstats>>

GetAsyncClient(u) ==
    /\ nops < MaxOps
    /\ \E t2 \in now..Min(now + MaxDelay, MaxTime) :
          LET g == GetCall(u, "async", aclients, t2, FALSE)
          IN  /\ aclients' = g.map
              /\ constructed' = g.made
              /\ closeCalls' = g.closes
              /\ pcall' = g.call
              /\ now' = t2
    /\ nops' = nops + 1
    /\ UNCHANGED poolForeign
    /\ UNCHANGED inflight
    /\ UNCHANGED <<session_ttl, max_sessions, clients, ncalls, pstats>>

\* close_all, all of it under self._lock: close() is called on every tracked
\* client that has one, and both bucket maps are cleared.
CloseAll ==
    /\ nops < MaxOps
    /\ LET tracked == EntriesOf(clients) \cup EntriesOf(aclients)
       IN  \E closeError \in CloseErrors(tracked) :
              IF closeError /\ ~SwallowsCloseError
              THEN /\ pcall' = [NoCall EXCEPT !.op = "raised", !.path = "raised",
                                              !.closeError = TRUE]
                   /\ UNCHANGED <<clients, aclients, closeCalls>>
              ELSE /\ clients' = <<>>
                   /\ aclients' = <<>>
                   /\ closeCalls' = CloseCallsAfter(Closed(tracked), Len(constructed))
                   /\ pcall' = [NoCall EXCEPT !.op = "close_all",
                                              !.closeError = closeError]
    /\ nops' = nops + 1
    /\ UNCHANGED poolForeign
    /\ UNCHANGED inflight
    /\ UNCHANGED <<session_ttl, max_sessions, now, constructed, ncalls, pstats>>

PoolNext ==
    \/ Tick
    \/ \E u \in HttpsUrls : GetClient(u)
    \/ \E u \in HttpsUrls : GetAsyncClient(u)
    \/ CloseAll

\* every interleaving of pool operations with the clock
SpecPool == PoolInit /\ [][PoolNext]_vars

\* sum(len(b) for b in m.values())
RECURSIVE SumOfLens(_, _)
SumOfLens(m, hosts) ==
    IF hosts = {} THEN 0
    ELSE LET h == CHOOSE x \in hosts : TRUE
         IN  Len(m[h]) + SumOfLens(m, hosts \ {h})

StatsOfLiveEntries(t) ==
    [sync_clients |-> SumOfLens(_cleanup_expired(clients, t), DOMAIN clients),
     async_clients |-> SumOfLens(_cleanup_expired(aclients, t), DOMAIN aclients),
     hosts_sync |-> Cardinality(DOMAIN clients),
     hosts_async |-> Cardinality(DOMAIN aclients),
     max_per_host |-> max_sessions,
     ttl_secs |-> session_ttl]

\* the dict get_pool_stats builds (it reads no clock: t is the time of the call)
PoolStats(t) ==
    [sync_clients |-> SumOfLens(clients, DOMAIN clients),
     async_clients |-> SumOfLens(aclients, DOMAIN aclients),
     hosts_sync |-> Cardinality(DOMAIN clients),
     hosts_async |-> Cardinality(DOMAIN aclients),
     max_per_host |-> max_sessions,
     ttl_secs |-> session_ttl]

\* get_pool_stats, all of it under self._lock
GetPoolStats ==
    /\ nops < MaxOps
    /\ pstats' = PoolStats(now)
    /\ pcall' = [NoCall EXCEPT !.op = "get_pool_stats",
                               !.path = IF pcall.op = "get_pool_stats"
                                        THEN "again" ELSE "first"]
    /\ nops' = nops + 1
    /\ UNCHANGED poolForeign
    /\ UNCHANGED inflight
    /\ UNCHANGED <<session_ttl, max_sessions, clients, aclients, now, constructed,
                   closeCalls, ncalls>>

PoolStatsNext ==
    \/ Tick
    \/ \E u \in HttpsUrls : GetClient(u)
    \/ \E u \in HttpsUrls : GetAsyncClient(u)
    \/ CloseAll
    \/ GetPoolStats

\* every interleaving of pool operations, get_pool_stats among them, with the
\* clock
SpecPoolStats == PoolInit /\ [][PoolStatsNext]_vars

GetNext ==
    \/ Tick
    \/ \E u \in HttpsUrls : GetClient(u)

\* sequences of get_client calls only
SpecGet == PoolInit /\ [][GetNext]_vars

SchemesNext ==
    \/ Tick
    \/ \E u \in Urls : GetClient(u)

\* The caller of the last get_client call issues a request through the client
\* it was handed: _request_with_retry reaches self._client.request(...). The
\* pool's lock was released when get_client returned.
UseClient ==
    /\ pcall.op = "get_client"
    /\ pcall.ret \notin inflight
    /\ inflight' = inflight \cup {pcall.ret}
    /\ UNCHANGED poolForeign
    /\ UNCHANGED <<session_ttl, max_sessions, clients, aclients, now, constructed,
                   closeCalls, pcall, ncalls, nops, pstats>>

\* the transport call made through client c returns or raises
RequestEnds(c) ==
    /\ c \in inflight
    /\ inflight' = inflight \ {c}
    /\ UNCHANGED poolForeign
    /\ UNCHANGED <<session_ttl, max_sessions, clients, aclients, now, constructed,
                   closeCalls, pcall, ncalls, nops, pstats>>

UseNext ==
    \/ Tick
    \/ \E u \in HttpsUrls : GetClient(u)
    \/ CloseAll
    \/ UseClient
    \/ \E c \in inflight : RequestEnds(c)

\* threads that get clients from the pool and send requests through them
\* while other threads call get_client and close_all
SpecUse == PoolInit /\ [][UseNext]_vars

\* sequences of get_client calls for base URLs of both schemes
SpecSchemes == PoolInit /\ [][SchemesNext]_vars

\* ------------------------------ get_connection_pool, reset_connection_pool
\* the second test, made while holding _pool_lock
AlwaysNone == TRUE

StillNone == _connection_pool = None

\* the epoch a moment belongs to: the number of resets finished before it
Epoch(events) == events \div 2

QuietSince(events) == events = resetEvents /\ events % 2 = 0

GlobalInit ==
    /\ GlobalUnset
    /\ HttpUnused
    /\ PoolUnused
    /\ requests = <<>>
    /\ strategy = "adaptive"
    /\ max_batch_size = 1
    /\ max_concurrent_batches = 1
    /\ max_concurrency = None
    /\ durations = <<>>
    /\ BatchIdle
    /\ AsyncIdle

\* get_connection_pool is entered and makes its first, unlocked test
GetPoolCheck(t) ==
    /\ gpc[t] = "idle"
    /\ gcalls < MaxCalls
    /\ gcalls' = gcalls + 1
    /\ gstart' = [gstart EXCEPT ![t] = resetEvents]
    /\ gpc' = [gpc EXCEPT ![t] = IF _connection_pool = None THEN "g_lock" ELSE "g_return"]
    /\ UNCHANGED <<_connection_pool, _pool_lock, pools, gret, resetEvents, greturns>>
    /\ UNCHANGED globalForeign

\* with _pool_lock:
GetPoolLock(t) ==
    /\ gpc[t] = "g_lock"
    /\ _pool_lock = 0
    /\ _pool_lock' = t
    /\ gpc' = [gpc EXCEPT ![t] = "g_init"]
    /\ UNCHANGED <<_connection_pool, pools, gret, resetEvents, gstart, greturns, gcalls>>
    /\ UNCHANGED globalForeign

\* the second test, the construction and the release of the lock
GetPoolInit(t) ==
    /\ gpc[t] = "g_init"
    /\ IF StillNone
       THEN /\ pools' = Append(pools, [epoch |-> Epoch(resetEvents), closed |-> 0])
            /\ _connection_pool' = Len(pools) + 1
       ELSE UNCHANGED <<pools, _connection_pool>>
    /\ _pool_lock' = 0
    /\ gpc' = [gpc EXCEPT ![t] = "g_return"]
    /\ UNCHANGED <<gret, resetEvents, gstart, greturns, gcalls>>
    /\ UNCHANGED globalForeign

\* return _connection_pool: the global is read again, outside the lock
GetPoolReturn(t) ==
    /\ gpc[t] = "g_return"
    /\ gret' = [gret EXCEPT ![t] = _connection_pool]
    /\ greturns' = IF QuietSince(gstart[t])
                   THEN greturns \cup {[epoch |-> Epoch(resetEvents),
                                        pool |-> _connection_pool, thread |-> t]}
                   ELSE greturns
    /\ gpc' = [gpc EXCEPT ![t] = "idle"]
    /\ UNCHANGED <<_connection_pool, _pool_lock, pools, resetEvents, gstart, gcalls>>
    /\ UNCHANGED globalForeign

\* reset_connection_pool takes the lock
ResetLock(t) ==
    /\ gpc[t] = "idle"
    /\ gcalls < MaxCalls
    /\ _pool_lock = 0
    /\ _pool_lock' = t
    /\ gcalls' = gcalls + 1
    /\ resetEvents' = resetEvents + 1
    /\ gpc' = [gpc EXCEPT ![t] = "r_close"]
    /\ UNCHANGED <<_connection_pool, pools, gret, gstart, greturns>>
    /\ UNCHANGED globalForeign

\* if _connection_pool: _connection_pool.close_all()
ResetClose(t) ==
    /\ gpc[t] = "r_close"
    /\ IF _connection_pool # None
       THEN /\ pools' = [pools EXCEPT ![_connection_pool].closed = @ + 1]
            /\ gpc' = [gpc EXCEPT ![t] = "r_clear"]
            /\ UNCHANGED <<_pool_lock, resetEvents>>
       ELSE /\ _pool_lock' = 0
            /\ resetEvents' = resetEvents + 1
            /\ gpc' = [gpc EXCEPT ![t] = "idle"]
            /\ UNCHANGED pools
    /\ UNCHANGED <<_connection_pool, gret, gstart, greturns, gcalls>>
    /\ UNCHANGED globalForeign

\* _connection_pool = None, and the lock is released
ResetClear(t) ==
    /\ gpc[t] = "r_clear"
    /\ _connection_pool' = None
    /\ _pool_lock' = 0
    /\ resetEvents' = resetEvents + 1
    /\ gpc' = [gpc EXCEPT ![t] = "idle"]
    /\ UNCHANGED <<pools, gret, gstart, greturns, gcalls>>
    /\ UNCHANGED globalForeign

GlobalNext ==
    \/ \E t \in Threads : GetPoolCheck(t)
    \/ \E t \in Threads : GetPoolLock(t)
    \/ \E t \in Threads : GetPoolInit(t)
    \/ \E t \in Threads : GetPoolReturn(t)
    \/ \E t \in Threads : ResetLock(t)
    \/ \E t \in Threads : ResetClose(t)
    \/ \E t \in Threads : ResetClear(t)

\* threads calling get_connection_pool and reset_connection_pool, interleaved
SpecGlobal == GlobalInit /\ [][GlobalNext]_vars

\* =========================================================================
\* CircuitBreaker
\* =========================================================================

\* allow(), with the clock reading t
NeverHalfOpen(t) == _opened_at = None

SingleProbe(t) ==
    \/ _opened_at = None
    \/ (t - _opened_at) >= reset_timeout /\ bcalls.passed = {}

allow(t) == _opened_at = None \/ (t - _opened_at) >= reset_timeout

BreakerInit ==
    /\ clock = 0
    /\ failure_threshold \in 1..MaxThreshold
    /\ reset_timeout \in 0..MaxTimeout
    /\ BreakerNew
    /\ BucketUnused
    /\ ClientIdle
    /\ NoTasks
    /\ RestIdle

BreakerAllow ==
    /\ allowed' = [called |-> TRUE, value |-> allow(clock), at |-> clock]
    /\ \E t \in Threads :
          bcalls' = [op |-> "allow",
                     passed |-> bcalls.passed \cup (IF allow(clock) THEN {t} ELSE {}),
                     retrial |-> FALSE]
    /\ UNCHANGED <<clock, failure_threshold, reset_timeout, _failures, _opened_at,
                   lastFailure>>
    /\ UNCHANGED <<bucketVars, partForeign>>

ResetsCountOnly ==
    /\ _failures' = 0
    /\ bcalls' = [op |-> "record_success", passed |-> {}, retrial |-> FALSE]
    /\ UNCHANGED <<_opened_at, clock, failure_threshold, reset_timeout, allowed, lastFailure>>
    /\ UNCHANGED <<bucketVars, partForeign>>

record_success ==
    /\ _failures' = 0
    /\ _opened_at' = None
    /\ bcalls' = [op |-> "record_success", passed |-> {}, retrial |-> FALSE]
    /\ UNCHANGED <<clock, failure_threshold, reset_timeout, allowed, lastFailure>>
    /\ UNCHANGED <<bucketVars, partForeign>>

FailureUncounted(t) == [failures |-> _failures, opened_at |-> _opened_at]

OpensOnce(t) ==
    [failures |-> _failures + 1,
     opened_at |-> IF _failures + 1 >= failure_threshold /\ _opened_at = None
                   THEN t ELSE _opened_at]

\* _failures and _opened_at after record_failure, the clock reading t
FailureRecorded(t) ==
    [failures |-> _failures + 1,
     opened_at |-> IF _failures + 1 >= failure_threshold THEN t ELSE _opened_at]

record_failure ==
    /\ _failures < MaxFailures
    /\ _failures' = FailureRecorded(clock).failures
    /\ _opened_at' = FailureRecorded(clock).opened_at
    /\ lastFailure' = clock
    /\ bcalls' = [op |-> "record_failure", passed |-> {},
                  retrial |-> (_opened_at # None /\ allow(clock))]
    /\ UNCHANGED <<clock, failure_threshold, reset_timeout, allowed>>
    /\ UNCHANGED <<bucketVars, partForeign>>

BreakerTick ==
    /\ clock < MaxClock
    /\ clock' = clock + 1
    /\ UNCHANGED breakerVars
    /\ UNCHANGED <<bucketVars, partForeign>>

BreakerNext ==
    \/ BreakerAllow
    \/ record_success
    \/ record_failure
    \/ BreakerTick

\* one CircuitBreaker, its three methods called in any order as time passes
SpecBreaker == BreakerInit /\ [][BreakerNext]_vars

\* =========================================================================
\* TokenBucket
\* =========================================================================

\* The refill at the top of acquire's loop, the clock reading t: tokens and
\* _last_refill afterwards. elapsed * refill_rate is elapsed / refill_period.
RefillWithoutWaiting(t) == [tokens |-> Min(capacity, tokens + 1), last |-> t]

RefillKeepsLast(t) ==
    [tokens |-> Min(capacity, tokens + ((t - _last_refill) \div refill_period)),
     last |-> _last_refill]

Refill(t) ==
    LET refill == (t - _last_refill) \div refill_period
    IN  IF (t - _last_refill) >= refill_period
        THEN [tokens |-> Min(capacity, tokens + refill), last |-> t]
        ELSE [tokens |-> tokens, last |-> _last_refill]

BucketInit ==
    /\ clock = 0
    /\ capacity \in 1..MaxCapacity
    /\ refill_period \in 1..MaxPeriod
    /\ BucketNew
    /\ BreakerUnused
    /\ ClientIdle
    /\ NoTasks
    /\ RestIdle

\* one pass of acquire(1)'s loop, under self._lock: the call returns when a
\* token is there and goes to sleep otherwise
AcquireTry ==
    /\ \/ acquiring.state = "idle" /\ Len(acquired) < MaxAcquires
       \/ acquiring.state = "awake"
    /\ LET r == Refill(clock)
       IN  /\ _last_refill' = r.last
           /\ IF r.tokens >= 1
              THEN /\ tokens' = r.tokens - 1
                   /\ acquired' = Append(acquired, [at |-> clock, sleeps |-> acquiring.sleeps])
                   /\ acquiring' = NotAcquiring
              ELSE /\ tokens' = r.tokens
                   /\ acquiring' = [acquiring EXCEPT !.state = "sleeping", !.tried = clock]
                   /\ UNCHANGED acquired
    /\ UNCHANGED <<clock, capacity, refill_period, tacq, taken, breakerVars, partForeign>>

\* time.sleep(0.01)
AcquireSleep ==
    /\ acquiring.state = "sleeping"
    /\ \E d \in 1..MaxSleep :
          /\ clock + d <= MaxClock
          /\ clock' = clock + d
    /\ acquiring' = [acquiring EXCEPT !.state = "awake", !.sleeps = @ + 1]
    /\ UNCHANGED <<capacity, refill_period, tokens, _last_refill, acquired, tacq, taken>>
    /\ UNCHANGED <<breakerVars, partForeign>>

\* time passes between two acquire calls
BucketTick ==
    /\ acquiring.state = "idle"
    /\ clock < MaxClock
    /\ clock' = clock + 1
    /\ UNCHANGED <<bucketVars, breakerVars, partForeign>>

BucketNext ==
    \/ AcquireTry
    \/ AcquireSleep
    \/ BucketTick

\* one TokenBucket and one caller of acquire(1)
SpecBucket == BucketInit /\ [][BucketNext]_vars

\* ---- several threads calling acquire(cost) on one TokenBucket

\* the costs the threads ask for: one token, or more than one
Costs == {1, 2}

RECURSIVE SumOver(_, _)
SumOver(f, S) ==
    IF S = {} THEN 0
    ELSE LET x == CHOOSE y \in S : TRUE IN f[x] + SumOver(f, S \ {x})

\* the test and the deduction in acquire, under self._lock, tk the tokens
\* after the refill: the tokens left and whether the call returns
TakeUnchecked(tk, cost) == [tokens |-> tk - cost, ok |-> TRUE]

TakeWhatIsThere(tk, cost) ==
    IF tk >= 1
    THEN [tokens |-> IF tk >= cost THEN tk - cost ELSE 0, ok |-> TRUE]
    ELSE [tokens |-> tk, ok |-> FALSE]

Take(tk, cost) ==
    IF tk >= cost
    THEN [tokens |-> tk - cost, ok |-> TRUE]
    ELSE [tokens |-> tk, ok |-> FALSE]

ThreadsBucketInit ==
    /\ clock = 0
    /\ capacity \in 1..MaxCapacity
    /\ refill_period \in {1, 2}
    /\ BucketNew
    /\ BreakerUnused
    /\ ClientIdle
    /\ NoTasks
    /\ RestIdle

\* a thread calls acquire(cost)
TAcquireCall(t) ==
    /\ tacq[t].state = "idle"
    /\ \E cost \in Costs : tacq' = [tacq EXCEPT ![t] = [state |-> "in_loop", cost |-> cost]]
    /\ UNCHANGED <<clock, capacity, refill_period, tokens, _last_refill, acquiring,
                   acquired, taken, breakerVars, partForeign>>

\* one pass of the loop, the whole `with self._lock` block: refill, then take
\* the cost and return, or leave the tokens and go to sleep
TAcquirePass(t) ==
    /\ tacq[t].state = "in_loop"
    /\ LET r == Refill(clock)
           k == Take(r.tokens, tacq[t].cost)
       IN  /\ _last_refill' = r.last
           /\ tokens' = k.tokens
           /\ IF k.ok
              THEN /\ taken' = [taken EXCEPT ![t] = @ + tacq[t].cost]
                   /\ tacq' = [tacq EXCEPT ![t] = [state |-> "idle", cost |-> 0]]
              ELSE /\ tacq' = [tacq EXCEPT ![t].state = "sleeping"]
                   /\ UNCHANGED taken
    /\ UNCHANGED <<clock, capacity, refill_period, acquiring, acquired, breakerVars, partForeign>>

\* time.sleep(0.01) returns, outside the lock
TAcquireWake(t) ==
    /\ tacq[t].state = "sleeping"
    /\ tacq' = [tacq EXCEPT ![t].state = "in_loop"]
    /\ UNCHANGED <<clock, capacity, refill_period, tokens, _last_refill, acquiring,
                   acquired, taken, breakerVars, partForeign>>

\* time passes, whatever the threads are doing
ThreadsBucketTick ==
    /\ clock < MaxClock
    /\ clock' = clock + 1
    /\ UNCHANGED <<bucketVars, breakerVars, partForeign>>

ThreadsBucketNext ==
    \/ \E t \in Threads : TAcquireCall(t)
    \/ \E t \in Threads : TAcquirePass(t)
    \/ \E t \in Threads : TAcquireWake(t)
    \/ ThreadsBucketTick

\* one TokenBucket and several threads calling acquire(cost)
SpecBucketThreads == ThreadsBucketInit /\ [][ThreadsBucketNext]_vars

\* =========================================================================
\* NSEHttpClient: get and get_json, through _request_with_retry
\* =========================================================================

\* the status codes the server answers with here: two that end the call and the
\* seven that _is_retryable_response names
Statuses == {200, 404, 302, 403, 429, 500, 502, 503, 504}
ContentTypes == {"json", "html"}

\* what self._client.request does: it returns a response or raises
\* httpx.HTTPError, RuntimeError("... client has been closed") or another error
TransportExceptions == {"HTTPError", "ClientClosed", "Other"}

TransportOutcomes(n) ==
    {[kind |-> "response", exc |-> "", status |-> st, ctype |-> ct, attempt |-> n] :
        st \in Statuses, ct \in ContentTypes}
    \cup {[kind |-> "exception", exc |-> e, status |-> 0, ctype |-> "", attempt |-> n] :
             e \in TransportExceptions}

CircuitOpenError(n) ==
    [kind |-> "exception", exc |-> "CircuitOpenError", status |-> 0, ctype |-> "",
     attempt |-> n]

RedirectNotRetryable(o) ==
    o.kind = "response" /\ o.status \in {403, 429, 500, 502, 503, 504}

RetriesEveryResponse(o) == o.kind = "response"

_is_retryable_response(o) ==
    o.kind = "response" /\ o.status \in {302, 403, 429, 500, 502, 503, 504}

RetriesEveryException(exc) == TRUE

\* retry_if_exception_type(httpx.HTTPError) | retry_if_exception(... "client has
\* been closed" ...)
RetryableException(exc) == exc \in {"HTTPError", "ClientClosed"}

RetriesCircuitOpen(o) ==
    \/ o.kind = "exception" /\ (RetryableException(o.exc) \/ o.exc = "CircuitOpenError")
    \/ _is_retryable_response(o)

\* the retry predicate of _retry_decorator
ShouldRetry(o) ==
    \/ o.kind = "exception" /\ RetryableException(o.exc)
    \/ _is_retryable_response(o)

ExhaustedWrapped(o) == [o EXCEPT !.kind = "exception", !.exc = "RetryError"]

\* reraise=True at the attempt ceiling: the last attempt's exception is raised
\* again; when the last attempt returned a value the RetryError itself is raised
Exhausted(o) ==
    IF o.kind = "exception" THEN o
    ELSE [o EXCEPT !.kind = "exception", !.exc = "RetryError"]

\* what get / get_json do with what _request_with_retry gave back
Deliver(op, r) ==
    IF op = "get_json" /\ r.kind = "response"
    THEN IF r.ctype = "json"
         THEN [r EXCEPT !.kind = "json"]
         ELSE [r EXCEPT !.kind = "exception", !.exc = "ContentTypeError"]
    ELSE r

\* the retry loop after an attempt ended with o: another attempt after a
\* backoff, or the end of the call
AfterAttempt(o) ==
    /\ last' = o
    /\ IF ShouldRetry(o) /\ attempt < AttemptCeiling
       THEN /\ rpc' = "backoff"
            /\ UNCHANGED <<returned, delivered>>
       ELSE LET r == IF ShouldRetry(o) THEN Exhausted(o) ELSE o
            IN  /\ rpc' = "done"
                /\ returned' = r
                /\ delivered' = Deliver(rop, r)

\* _respect_retry_after: no Retry-After header, or one that asks for one unit
\* of time
RetryAfter == {0, 1}

\* the time at which acquire() finds a token
TokenTime ==
    IF Refill(clock).tokens >= 1 THEN clock ELSE _last_refill + refill_period

\* a breaker that earlier calls have just opened
BreakerJustOpened ==
    /\ _failures = failure_threshold
    /\ _opened_at = clock
    /\ allowed = NotAsked
    /\ bcalls = NoCalls
    /\ lastFailure = clock

\* a breaker that the failures of earlier calls have left one short of opening
BreakerNearlyOpen ==
    /\ failure_threshold >= 2
    /\ _failures = failure_threshold - 1
    /\ _opened_at = None
    /\ allowed = NotAsked
    /\ bcalls = NoCalls
    /\ lastFailure = clock

\* NSEHttpClient.__init__: a breaker given by the caller or the default one, and
\* TokenBucket(tokens=rate_limit_per_sec, refill_rate=float(rate_limit_per_sec)).
\* The unit of time of this client is 1 / rate_limit_per_sec seconds, the time
\* one token takes to refill.
RequestInit ==
    /\ clock = 0
    /\ failure_threshold \in {1, 2, DefaultThreshold}
    /\ reset_timeout \in {0, 2}
    /\ BreakerNew \/ BreakerNearlyOpen \/ BreakerJustOpened
    /\ capacity \in {1, 2}
    /\ refill_period = 1
    /\ BucketNew
    /\ ClientIdle
    /\ NoTasks
    /\ RestIdle

\* get(path) or get_json(path) is called
ReqCall ==
    /\ rpc = "idle"
    /\ nrequests' = nrequests + 1
    /\ raised' = 0
    /\ before' = _failures
    /\ rop' \in {"get", "get_json"}
    /\ rpc' = "check"
    /\ attempt' = 1
    /\ sent' = 0
    /\ side' = NoSide
    /\ last' = Nothing
    /\ returned' = Nothing
    /\ delivered' = Nothing
    /\ onlyErrors' = TRUE
    /\ onlyRetryable' = TRUE
    /\ UNCHANGED <<clock, breakerVars, bucketVars, httpForeign>>

\* self._check_circuit()
ReqCheck ==
    /\ rpc = "check"
    /\ allowed' = [called |-> TRUE, value |-> allow(clock), at |-> clock]
    /\ bcalls' = [op |-> "allow", retrial |-> FALSE,
                  passed |-> bcalls.passed \cup (IF allow(clock) THEN {1} ELSE {})]
    /\ IF allow(clock)
       THEN /\ rpc' = "acquire"
            /\ UNCHANGED <<last, returned, delivered, onlyErrors, onlyRetryable>>
       ELSE /\ AfterAttempt(CircuitOpenError(attempt))
            /\ onlyErrors' = FALSE
            /\ onlyRetryable' = FALSE
    /\ UNCHANGED <<clock, failure_threshold, reset_timeout, _failures, _opened_at,
                   lastFailure, bucketVars, rop, attempt, sent, side, nrequests, raised, before>>
    /\ UNCHANGED httpForeign

\* self._rate.acquire(): the caller sleeps until a token is there and takes it
ReqAcquire ==
    /\ rpc = "acquire"
    /\ TokenTime <= MaxClock
    /\ clock' = TokenTime
    /\ tokens' = Refill(TokenTime).tokens - 1
    /\ _last_refill' = Refill(TokenTime).last
    /\ rpc' = "send"
    /\ UNCHANGED <<capacity, refill_period, acquiring, acquired, tacq, taken, breakerVars>>
    /\ UNCHANGED <<rop, attempt, sent, side, last, returned, delivered, onlyErrors,
                   onlyRetryable, nrequests, raised, before>>
    /\ UNCHANGED httpForeign

\* self._client.request(...) and the rest of the attempt
ReqSend ==
    /\ rpc = "send"
    /\ sent' = sent + 1
    /\ \E o \in TransportOutcomes(attempt), d \in RetryAfter :
          /\ clock + d <= MaxClock
          /\ (d > 0) => (o.kind = "response" /\ o.status = 429)
          /\ clock' = clock + d
          /\ onlyErrors' = (onlyErrors /\ o.kind = "exception" /\ o.exc = "HTTPError")
          /\ onlyRetryable' = (onlyRetryable /\ _is_retryable_response(o))
          /\ raised' = raised + (IF o.kind = "exception" THEN 1 ELSE 0)
          /\ IF o.kind = "exception"
             THEN /\ _failures' = FailureRecorded(clock).failures
                  /\ _opened_at' = FailureRecorded(clock).opened_at
                  /\ lastFailure' = clock
                  /\ bcalls' = [op |-> "record_failure", passed |-> {},
                                retrial |-> (_opened_at # None /\ allow(clock))]
                  /\ side' = side \cup (IF o.exc = "ClientClosed" THEN {"rebuilt"} ELSE {})
             ELSE IF _is_retryable_response(o)
             THEN /\ side' = side \cup (IF o.status = 403 THEN {"primed"} ELSE {})
                  /\ UNCHANGED <<_failures, _opened_at, lastFailure, bcalls>>
             ELSE /\ _failures' = 0
                  /\ _opened_at' = None
                  /\ bcalls' = [op |-> "record_success", passed |-> {}, retrial |-> FALSE]
                  /\ UNCHANGED <<side, lastFailure>>
          /\ AfterAttempt(o)
    /\ UNCHANGED <<failure_threshold, reset_timeout, allowed, bucketVars, rop, attempt,
                   nrequests, before>>
    /\ UNCHANGED httpForeign

\* tenacity waits (wait_exponential_jitter) and starts the next attempt
ReqBackoff ==
    /\ rpc = "backoff"
    /\ \E d \in 0..MaxWait :
          /\ clock + d <= MaxClock
          /\ clock' = clock + d
    /\ attempt' = attempt + 1
    /\ last' = Nothing
    /\ rpc' = "check"
    /\ UNCHANGED <<breakerVars, bucketVars, rop, sent, side, returned, delivered,
                   onlyErrors, onlyRetryable, nrequests, raised, before>>
    /\ UNCHANGED httpForeign

\* time passes before the call
ReqTick ==
    /\ rpc = "idle"
    /\ clock < MaxClock
    /\ clock' = clock + 1
    /\ UNCHANGED <<breakerVars, bucketVars, reqVars, httpForeign>>

RequestNext ==
    \/ ReqCall
    \/ ReqCheck
    \/ ReqAcquire
    \/ ReqSend
    \/ ReqBackoff
    \/ ReqTick

\* one NSEHttpClient and one call of get or get_json, against every behaviour
\* of the transport
SpecRequest == RequestInit /\ [][RequestNext]_vars

\* a client whose breaker, new, opens at the second or at the fifth failure and
\* half-opens one or three units of time later
OwnFailuresInit ==
    /\ clock = 0
    /\ failure_threshold \in {2, AttemptCeiling}
    /\ reset_timeout \in {1, 3}
    /\ BreakerNew
    /\ capacity = 2
    /\ refill_period = 1
    /\ BucketNew
    /\ ClientIdle
    /\ NoTasks
    /\ RestIdle

\* calls of get / get_json whose own failures open the breaker
SpecOwnFailures == OwnFailuresInit /\ [][RequestNext]_vars

\* a thread calls acquire() with the default cost of one token
TAcquireOne(t) == TAcquireCall(t) /\ tacq'[t].cost = 1

OnesNext ==
    \/ \E t \in Threads : TAcquireOne(t)
    \/ \E t \in Threads : TAcquirePass(t)
    \/ \E t \in Threads : TAcquireWake(t)
    \/ ThreadsBucketTick

\* one TokenBucket and several threads calling acquire(1)
SpecBucketOnes == ThreadsBucketInit /\ [][OnesNext]_vars

\* the longest a call of acquire(cost) begun now can take to find its tokens:
\* each token it lacks takes one refill, and a refill seen late drops the time
\* beyond whole periods
LongestWait(cost) ==
    (IF cost > tokens THEN cost - tokens ELSE 0) * (2 * refill_period - 1)

\* the one caller calls acquire(cost), early enough for the clock of the model
SoloCall ==
    /\ TAcquireCall(1)
    /\ clock + LongestWait(tacq'[1].cost) <= MaxClock

SoloNext ==
    \/ SoloCall
    \/ TAcquirePass(1)
    \/ TAcquireWake(1)
    \/ ThreadsBucketTick

\* the caller's thread goes on running and the clock goes on advancing
SoloFairness ==
    /\ WF_vars(TAcquirePass(1))
    /\ WF_vars(TAcquireWake(1))
    /\ WF_vars(ThreadsBucketTick)

\* one TokenBucket and a single caller of acquire(cost), scheduled fairly
SpecSoloFair == ThreadsBucketInit /\ [][SoloNext]_vars /\ SoloFairness

\* =========================================================================
\* Properties
\* =========================================================================

\* the BatchResult the caller must find at index i, from what perform did there
ExpectedResult(i) ==
    IF performed[i].raised
    THEN [success |-> FALSE, data |-> None, error |-> performed[i].value, retries |-> 0]
    ELSE [success |-> TRUE, data |-> performed[i].value, error |-> None, retries |-> 0]

\* C1: under SEQUENTIAL, PARALLEL and ADAPTIVE, for every chunk size, worker
\* count and completion order, batch_requests returns exactly len(requests)
\* results, and result i is the outcome of perform(requests[i]).
C1_ResultsInInputOrder ==
    bpc = "done" =>
        /\ Len(ret) = Len(requests)
        /\ \A i \in 1..Len(requests) :
              /\ performed[i].param = requests[i]
              /\ ret[i] = ExpectedResult(i)

C1_Witness ==
    /\ bpc = "done"
    /\ strategy = "parallel"
    /\ outOfOrder
    /\ Len(ret) >= 3
    /\ ret[1] # ret[Len(ret)]

\* C2: batch_requests never raises because perform raised: every request is
\* performed exactly once, also after a failing one; result i has success=False
\* and error=str(exception) exactly when its perform call raised, and
\* success=True with perform's return value otherwise.
C2_FailuresIsolated ==
    /\ bpc # "raised"
    /\ bpc = "done" =>
          /\ Len(ret) = Len(requests)
          /\ \A i \in 1..Len(requests) :
                /\ performed[i].calls = 1
                /\ ret[i].success = ~performed[i].raised
                /\ performed[i].raised =>
                      ret[i].error = ExceptionText(requests[i]) /\ ret[i].data = None
                /\ ~performed[i].raised =>
                      ret[i].data = PerformData(requests[i]) /\ ret[i].error = None

C2_Witness ==
    /\ bpc = "done"
    /\ max_batch_size >= 2
    /\ Len(ret) >= 3
    /\ ~ret[1].success
    /\ ret[2].success
    /\ ret[3].success

\* C3: abatch_requests returns one BatchResult per request at the request's
\* index for every interleaving of the tasks: a raising coroutine gives
\* success=False with error=str(exception) in its own slot, every other task
\* still runs, and no slot is left unfilled.
C3_AsyncFailuresIsolated ==
    /\ apc # "raised"
    /\ apc = "done" =>
          /\ Len(ret) = Len(requests)
          /\ \A i \in 1..Len(requests) :
                /\ ret[i] # NoResult
                /\ performed[i].calls = 1
                /\ ret[i] = ExpectedResult(i)
                /\ performed[i].raised => ret[i].error = ExceptionText(requests[i])

C3_Witness ==
    /\ apc = "done"
    /\ \E i, j \in 1..Len(ret) :
          /\ i < j
          /\ durations[i] > durations[j]
          /\ ~ret[i].success
          /\ ret[j].success

\* the concurrency limit as the interface states it
ClaimedLimit ==
    IF max_concurrency # None THEN max_concurrency
    ELSE max_concurrent_batches * max_batch_size

Rounds(n, l) == (n + l - 1) \div l

UniformDuration(d) == \A i \in 1..Len(durations) : durations[i] = d

\* C4: at no time are more than L perform coroutines in flight, L being
\* max_concurrency when given and max_concurrent_batches * max_batch_size
\* otherwise; n requests of equal duration d complete after ceil(n / L) rounds
\* of d.
C4_BoundedConcurrency ==
    /\ Cardinality(InFlight) <= ClaimedLimit
    /\ (apc = "done" /\ requests # <<>>) =>
          \A d \in 1..MaxDur :
             UniformDuration(d) => aclock = Rounds(Len(requests), ClaimedLimit) * d

C4_Witness ==
    /\ apc = "done"
    /\ Len(requests) >= 3
    /\ ClaimedLimit > 1
    /\ ClaimedLimit < Len(requests)
    /\ \E d \in 1..MaxDur :
          UniformDuration(d) /\ aclock = Rounds(Len(requests), ClaimedLimit) * d

\* ---------------------------------------------------------------- pool
SyncClientsOf(h) ==
    {c \in 1..Len(constructed) :
        constructed[c].kind = "sync" /\ constructed[c].netloc = h}

FirstClient(h) == CHOOSE c \in SyncClientsOf(h) : \A d \in SyncClientsOf(h) : c <= d

\* no client of host h has reached session_ttl yet
BeforeExpiry(h) ==
    /\ SyncClientsOf(h) # {}
    /\ now - constructed[FirstClient(h)].born < session_ttl

BucketEntries(m, h) == IF h \in DOMAIN m THEN {m[h][i] : i \in 1..Len(m[h])} ELSE {}

Tracked(m) == {e.client : e \in EntriesOf(m)}

\* this step is a call of get_client
IsGetClientStep == \E h \in Netlocs : ncalls'[h] = ncalls[h] + 1

\* C5: in any sequence of get_client calls for one host made before TTL
\* expiry, on a pool with max_sessions = k >= 1, at most k clients are
\* constructed for the host, and every call after the k-th returns a client
\* that existed before the call.
C5_AtMostKClients ==
    [][\A h \in Netlocs :
          BeforeExpiry(h)' =>
             /\ Cardinality(SyncClientsOf(h))' <= max_sessions
             /\ (ncalls'[h] = ncalls[h] + 1 /\ ncalls[h] >= max_sessions) =>
                   /\ pcall'.op = "get_client"
                   /\ pcall'.ret \in 1..Len(constructed)]_vars

C5_Witness ==
    \E h \in Netlocs :
       /\ BeforeExpiry(h)
       /\ max_sessions = 2
       /\ ncalls[h] > max_sessions
       /\ pcall.op = "get_client"
       /\ pcall.netloc = h

\* entry e of the bucket after its last_used was set to t
Bumped(e, t) == [e EXCEPT !.last_used = t]

\* what a get_client call that finds live entry e of host h does, but for the
\* other entries of the pool
ReusesEntry(h, e) ==
    /\ pcall'.op = "get_client"
    /\ pcall'.ret = e.client
    /\ constructed' = constructed
    /\ Bumped(e, now') \in BucketEntries(clients', h)
    /\ aclients' = aclients

\* C6 as stated: when the host's bucket holds an entry that is still live
\* (age < session_ttl), get_client returns that entry's client, constructs no
\* client and sets the entry's last_used to the current time, leaving its
\* creation time and every other entry unchanged.
C6_ReuseLeavesOthersUnchanged ==
    [][\A h \in Netlocs :
          ncalls'[h] = ncalls[h] + 1 =>
             \A e \in BucketEntries(clients, h) :
                now' - e.created < session_ttl =>
                   /\ ReusesEntry(h, e)
                   /\ EntriesOf(clients') \ {Bumped(e, now')}
                         = EntriesOf(clients) \ {e}]_vars

\* C6 as amended: ... leaving its creation time and every other entry that has
\* not expired unchanged; the entries that have expired, of any host, are
\* removed by the same call.
C6_ReuseLeavesLiveOthersUnchanged ==
    [][\A h \in Netlocs :
          ncalls'[h] = ncalls[h] + 1 =>
             \A e \in BucketEntries(clients, h) :
                now' - e.created < session_ttl =>
                   /\ ReusesEntry(h, e)
                   /\ EntriesOf(clients') \ {Bumped(e, now')}
                         = {x \in EntriesOf(clients) \ {e} :
                               now - x.created < session_ttl}]_vars

C6_Witness ==
    /\ pcall.op = "get_client"
    /\ pcall.path = "reuse"
    /\ pcall.purged # {}
    /\ \E e \in BucketEntries(clients, pcall.netloc) :
          e.client = pcall.ret /\ e.last_used = now /\ e.created < now

\* C7: every get_client call first removes, for all hosts of the sync bucket,
\* each entry whose age since creation is >= session_ttl, whatever its
\* last_used, calling close on its client and swallowing a close error; a
\* client so expired is not returned, and a new client is created for the
\* requested host when its only entry had expired.
C7_ExpiredPurgedOnGet ==
    [][IsGetClientStep =>
          /\ pcall'.op = "get_client"
          /\ \A e \in EntriesOf(clients) :
                now - e.created >= session_ttl =>
                   /\ e.client \notin Tracked(clients')
                   /\ closeCalls'[e.client] = closeCalls[e.client] + 1
                   /\ pcall'.ret # e.client
          /\ \A h \in Netlocs :
                (/\ ncalls'[h] = ncalls[h] + 1
                 /\ h \in DOMAIN clients
                 /\ Len(clients[h]) = 1
                 /\ now - clients[h][1].created >= session_ttl) =>
                   /\ Len(constructed') = Len(constructed) + 1
                   /\ pcall'.ret = Len(constructed')
                   /\ pcall'.ret \in {x.client : x \in BucketEntries(clients', h)}]_vars

C7_Witness ==
    /\ pcall.op = "get_client"
    /\ pcall.path = "create"
    /\ pcall.closeError
    /\ \E c \in pcall.purged : constructed[c].netloc = pcall.netloc /\ closeCalls[c] = 1

\* C8 as stated: after close_all every client that was tracked, sync and
\* async, has been closed, each exactly once across all calls, and both buckets
\* are empty.
C8_CloseAllClosesEveryClient ==
    [][pcall'.op = "close_all" /\ nops' = nops + 1 =>
          /\ DOMAIN clients' = {}
          /\ DOMAIN aclients' = {}
          /\ \A c \in Tracked(clients) \cup Tracked(aclients) : closeCalls'[c] = 1
          /\ \A c \in 1..Len(constructed) : closeCalls'[c] <= 1]_vars

\* C8, what close_all does: every sync client that was tracked has been
\* closed, exactly once across all calls, and both buckets are empty; the
\* async clients that were tracked are dropped without being closed.
C8_CloseAllClosesSyncClients ==
    [][pcall'.op = "close_all" /\ nops' = nops + 1 =>
          /\ DOMAIN clients' = {}
          /\ DOMAIN aclients' = {}
          /\ \A c \in Tracked(clients) : closeCalls'[c] = 1
          /\ \A c \in Tracked(aclients) : closeCalls'[c] = 0
          /\ \A c \in 1..Len(constructed) : closeCalls'[c] <= 1]_vars

C8_Witness ==
    /\ pcall.op = "close_all"
    /\ DOMAIN clients = {}
    /\ DOMAIN aclients = {}
    /\ \E c, d \in 1..Len(constructed) :
          /\ KindOf(c) = "sync" /\ closeCalls[c] = 1
          /\ KindOf(d) = "async" /\ closeCalls[d] = 0
    /\ nops = Len(constructed) + 1

\* C10: N threads calling get_client for one host that has no client yet, all
\* before the client's session_ttl runs out: no call raises, exactly one client
\* is constructed for the host and every call returns it.
C10_ConcurrentGetClient ==
    /\ pcall.op # "raised"
    /\ \A h \in Netlocs :
          (ncalls[h] >= 1 /\ BeforeExpiry(h)) =>
             /\ Cardinality(SyncClientsOf(h)) = 1
             /\ pcall.netloc = h => pcall.ret = FirstClient(h)

C10_Witness ==
    \E h \in Netlocs :
       /\ ncalls[h] >= 3
       /\ BeforeExpiry(h)
       /\ pcall.netloc = h
       /\ pcall.ret = FirstClient(h)

\* C9: between two resets every get_connection_pool call, concurrent first
\* calls included, returns the same pool and at most one pool is constructed;
\* once reset_connection_pool has returned the old pool has been closed, and
\* the get_connection_pool calls that follow return a pool constructed after
\* the reset, hence a different one.
C9_SingletonBetweenResets ==
    /\ \A r1, r2 \in greturns : r1.epoch = r2.epoch => r1.pool = r2.pool
    /\ \A i, j \in 1..Len(pools) : pools[i].epoch = pools[j].epoch => i = j
    /\ \A i \in 1..Len(pools) :
          pools[i].epoch < Epoch(resetEvents) => pools[i].closed = 1
    /\ \A r \in greturns :
          /\ r.pool \in 1..Len(pools)
          /\ pools[r.pool].epoch = r.epoch

C9_Witness ==
    \E r1, r2, r3 \in greturns :
       /\ r1.thread # r2.thread
       /\ r1.epoch = r2.epoch
       /\ r1.pool = r2.pool
       /\ r3.epoch > r1.epoch
       /\ r3.pool # r1.pool
       /\ pools[r1.pool].closed = 1

\* ------------------------------------------------------------- breaker
\* C11: with failure_threshold = n, allow() is true while fewer than n failures
\* were recorded since the last success; after n failures with no success in
\* between it is false as long as less than reset_timeout has passed since the
\* last recorded failure, and true again once reset_timeout has passed, with
\* no call changing the breaker; allow() itself changes nothing.
C11_BreakerOpensAndHalfOpens ==
    /\ [](/\ _failures < failure_threshold => allow(clock)
          /\ _failures >= failure_threshold =>
                (allow(clock) <=> clock - lastFailure >= reset_timeout))
    /\ [][allowed' # allowed =>
             /\ allowed'.value = (_failures < failure_threshold
                                    \/ clock - lastFailure >= reset_timeout)
             /\ UNCHANGED <<_failures, _opened_at>>]_vars

C11_Witness ==
    /\ failure_threshold = 3
    /\ _failures = 3
    /\ reset_timeout = 2
    /\ lastFailure # None
    /\ clock - lastFailure = reset_timeout
    /\ allowed = [called |-> TRUE, value |-> TRUE, at |-> clock]

\* ---------------------------------------------------------- token bucket
\* C17: a TokenBucket of capacity C and refill rate R that starts full lets C
\* acquire(1) calls return on their first try, without sleeping; the call
\* after them does not return before 1/R has passed since the start, and when
\* the C calls were made back to back it returns on its first try made once
\* 1/R has passed.
C17_BurstThenWait ==
    /\ \A k \in 1..Len(acquired) : k <= capacity => acquired[k].sleeps = 0
    /\ Len(acquired) > capacity => acquired[capacity + 1].at >= refill_period
    /\ (/\ Len(acquired) = capacity
        /\ acquired[capacity].at < refill_period
        /\ acquiring.state # "idle") => acquiring.tried < refill_period

C17_Witness ==
    /\ capacity = 2
    /\ refill_period = 2
    /\ Len(acquired) = 3
    /\ acquired[2].at = 0
    /\ acquired[3].sleeps >= 1
    /\ acquired[3].at = refill_period

\* C12: an attempt that starts while allow() is false ends the call at once
\* with CircuitOpenError: nothing is sent, no token is taken, there is no
\* further attempt, and the breaker's state stays as it was.
C12_OpenCircuitFailsFast ==
    [][(rpc = "check" /\ ~allow(clock) /\ rpc' # rpc) =>
          /\ rpc' = "done"
          /\ delivered' = CircuitOpenError(attempt)
          /\ sent' = sent
          /\ attempt' = attempt
          /\ tokens' = tokens
          /\ _last_refill' = _last_refill
          /\ UNCHANGED <<_failures, _opened_at, failure_threshold, reset_timeout>>]_vars

C12_Witness ==
    /\ rpc = "done"
    /\ delivered.exc = "CircuitOpenError"
    /\ delivered.attempt >= 2
    /\ sent = delivered.attempt - 1
    /\ _failures >= failure_threshold

\* C13: one call sends the request at most five times; a further attempt is
\* made only after an attempt that raised a transport exception or returned one
\* of the statuses 302, 403, 429, 500, 502, 503, 504; a response with any other
\* status ends the call and is what _request_with_retry returns, unmodified.
C13_AtMostFiveJustifiedAttempts ==
    /\ [](sent <= AttemptCeiling /\ attempt <= AttemptCeiling)
    /\ [][(attempt >= 1 /\ attempt' = attempt + 1) =>
             \/ last.kind = "exception" /\ last.exc \in TransportExceptions
             \/ last.kind = "response"
                /\ last.status \in {302, 403, 429, 500, 502, 503, 504}]_vars
    /\ [][(rpc = "send" /\ rpc' # rpc /\ last'.kind = "response"
           /\ last'.status \notin {302, 403, 429, 500, 502, 503, 504}) =>
             /\ rpc' = "done"
             /\ returned' = last'
             /\ returned'.attempt = attempt
             /\ (rop = "get" => delivered' = last')]_vars

C13_Witness ==
    /\ rpc = "done"
    /\ sent = AttemptCeiling
    /\ returned.kind = "response"
    /\ returned.status = 200
    /\ returned.attempt = AttemptCeiling
    /\ side = {"primed", "rebuilt"}

\* C14: the content-type error of get_json is retryable: the request is sent
\* again up to the attempt ceiling, and the error reaches the caller only once
\* the attempts are exhausted.
C14_ContentTypeErrorAfterRetries ==
    (rpc = "done" /\ delivered.exc = "ContentTypeError") =>
        attempt = AttemptCeiling /\ sent = AttemptCeiling

\* C14, what the code does: get_json raises the error after _request_with_retry
\* has returned, so no attempt follows it.
C14_ContentTypeErrorEndsCall ==
    [][(delivered'.exc = "ContentTypeError" /\ delivered.exc # "ContentTypeError") =>
          /\ rpc = "send" /\ rpc' = "done"
          /\ rop = "get_json"
          /\ returned'.kind = "response"
          /\ ~_is_retryable_response(returned')
          /\ returned'.ctype # "json"
          /\ attempt' = attempt]_vars

C14_Witness ==
    /\ rpc = "done"
    /\ rop = "get_json"
    /\ delivered.exc = "ContentTypeError"
    /\ returned.status = 200
    /\ returned.ctype = "html"
    /\ attempt = 1
    /\ sent = 1

\* C15: when every attempt raises a transport error and the circuit stays
\* closed, the call makes exactly five attempts and the caller receives the
\* exception of the fifth attempt itself.
C15_LastExceptionAfterFiveAttempts ==
    (rpc = "done" /\ onlyErrors) =>
        /\ sent = AttemptCeiling
        /\ attempt = AttemptCeiling
        /\ last.kind = "exception"
        /\ last.attempt = AttemptCeiling
        /\ returned = last
        /\ delivered = last

C15_Witness ==
    /\ rpc = "done"
    /\ onlyErrors
    /\ delivered = [kind |-> "exception", exc |-> "HTTPError", status |-> 0,
                    ctype |-> "", attempt |-> AttemptCeiling]
    /\ _failures = AttemptCeiling
    /\ _opened_at = None

\* C16: when every attempt returns a retryable status, the retries stop at the
\* ceiling and the caller of get is given the last response, whose status code
\* it can read.
C16_LastResponseAfterFiveAttempts ==
    (rpc = "done" /\ rop = "get" /\ onlyRetryable /\ sent = AttemptCeiling) =>
        /\ delivered.kind = "response"
        /\ delivered = last

\* C16, what the code does: the fifth retryable response is held by a
\* RetryError, which is what the caller gets.
C16_RetryErrorAfterFiveAttempts ==
    (rpc = "done" /\ onlyRetryable /\ sent >= 1) =>
        /\ sent = AttemptCeiling
        /\ delivered.kind = "exception"
        /\ delivered.exc = "RetryError"
        /\ delivered.status = last.status

C16_Witness ==
    /\ rpc = "done"
    /\ rop = "get"
    /\ onlyRetryable
    /\ sent = AttemptCeiling
    /\ last.kind = "response"
    /\ last.status = 503
    /\ delivered.exc = "RetryError"

\* ------------------------------------------- NSEAsyncHttpClient on one loop
\* The tasks of one event loop share one thread.  A task runs from one await
\* to the next without any other task running; at an await it is suspended and
\* the loop resumes any task whose awaited operation is over.  time.sleep does
\* not await: the task keeps the thread, and the loop, until the sleep ends.
TaskSleeps == {"rate_sleep", "retry_after_sleep"}

\* tenacity after an attempt it retries: asyncio.sleep and another attempt, or
\* the end of the call at the attempt ceiling
AfterRetryable(t) == IF tattempt[t] < AttemptCeiling THEN "await_backoff" ELSE "done"

\* where a task goes on after _aprime_session
AfterPrime(t) == IF tafter[t] = "request" THEN "await_request" ELSE AfterRetryable(t)

\* the history of the priming is kept up to the first 403 response, which
\* makes the client prime again: h, or the note that a 403 was seen
Noted(after, h) ==
    IF phist.forbidden \/ after = "return"
    THEN [phist EXCEPT !.forbidden = TRUE]
    ELSE h

\* _aprime_session up to its first await: the lock, or the priming GET
EnterPrime(t, after) ==
    /\ tafter' = [tafter EXCEPT ![t] = after]
    /\ running' = None
    /\ IF _prime_lock = None
       THEN /\ _prime_lock' = t
            /\ tpc' = [tpc EXCEPT ![t] = "await_prime"]
            /\ phist' = Noted(after, [phist EXCEPT !.sent = @ + 1])
       ELSE /\ tpc' = [tpc EXCEPT ![t] = "await_prime_lock"]
            /\ phist' = Noted(after, [phist EXCEPT !.waited = @ \cup {t}])
            /\ UNCHANGED _prime_lock

\* one pass of the loop of self._rate.acquire() at time at, and what follows it
AcquireAt(t, at) ==
    LET r == Refill(at)
    IN  /\ _last_refill' = r.last
        /\ IF r.tokens >= 1
           THEN /\ tokens' = r.tokens - 1
                /\ IF _primed
                   THEN /\ tpc' = [tpc EXCEPT ![t] = "await_request"]
                        /\ running' = None
                        /\ UNCHANGED <<_prime_lock, tafter, phist>>
                   ELSE EnterPrime(t, "request")
           ELSE /\ tokens' = r.tokens
                /\ tpc' = [tpc EXCEPT ![t] = "rate_sleep"]
                /\ running' = t
                /\ UNCHANGED <<_prime_lock, tafter, phist>>

\* the start of an attempt of _request_with_retry
AsyncAttempt(t) ==
    IF allow(clock)
    THEN AcquireAt(t, clock)
    ELSE /\ tpc' = [tpc EXCEPT ![t] = "done"]
         /\ UNCHANGED <<tokens, _last_refill, running, _prime_lock, tafter, phist>>

AsyncClientInit ==
    /\ clock = 0
    /\ failure_threshold \in {2, DefaultThreshold}
    /\ reset_timeout = 30
    /\ BreakerNew
    /\ capacity \in 1..MaxCapacity
    /\ refill_period = 1
    /\ BucketNew
    /\ ClientIdle
    /\ tpc = [t \in Tasks |-> "ready"]
    /\ tattempt = [t \in Tasks |-> 0]
    /\ tafter = [t \in Tasks |-> "request"]
    /\ running = None
    /\ _primed = FALSE
    /\ _prime_lock = None
    /\ phist = NoPriming
    /\ RestIdle

\* the loop runs a task for the first time: await client.get(path)
ABegin(t) ==
    /\ running = None
    /\ tpc[t] = "ready"
    /\ tattempt' = [tattempt EXCEPT ![t] = 1]
    /\ AsyncAttempt(t)
    /\ UNCHANGED <<clock, _primed, breakerVars, capacity, refill_period, acquiring,
                   acquired, tacq, taken, taskForeign>>

\* tenacity's asyncio.sleep is over: the next attempt
ABackoffDone(t) ==
    /\ running = None
    /\ tpc[t] = "await_backoff"
    /\ tattempt' = [tattempt EXCEPT ![t] = @ + 1]
    /\ AsyncAttempt(t)
    /\ UNCHANGED <<clock, _primed, breakerVars, capacity, refill_period, acquiring,
                   acquired, tacq, taken, taskForeign>>

\* time.sleep(0.01) in TokenBucket.acquire returns and the loop of acquire
\* makes its next pass
ARateWake(t) ==
    /\ tpc[t] = "rate_sleep"
    /\ \E d \in 1..MaxSleep :
          /\ clock + d <= MaxClock
          /\ clock' = clock + d
          /\ AcquireAt(t, clock + d)
    /\ UNCHANGED <<tattempt, _primed, breakerVars, capacity, refill_period, acquiring,
                   acquired, tacq, taken, taskForeign>>

PrimedUnlessRaised(raises) == ~raises

\* self._primed after the priming GET, which raised or not
PrimedAfter(raises) == TRUE

\* a task waiting for self._prime_lock gets it
APrimeLockGranted(t) ==
    /\ running = None
    /\ tpc[t] = "await_prime_lock"
    /\ _prime_lock = None
    /\ IF _primed
       THEN /\ tpc' = [tpc EXCEPT ![t] = AfterPrime(t)]
            /\ UNCHANGED <<_prime_lock, phist>>
       ELSE /\ tpc' = [tpc EXCEPT ![t] = "await_prime"]
            /\ _prime_lock' = t
            /\ phist' = Noted(tafter[t], [phist EXCEPT !.sent = @ + 1])
    /\ UNCHANGED <<clock, tattempt, tafter, running, _primed, breakerVars, bucketVars,
                   taskForeign>>

\* the priming GET is over: it returned or it raised, which is swallowed
APrimeDone(t) ==
    /\ running = None
    /\ tpc[t] = "await_prime"
    /\ \E raises \in BOOLEAN :
          /\ phist' = Noted(tafter[t], [phist EXCEPT !.failed = @ \/ raises])
          /\ _primed' = PrimedAfter(raises)
    /\ _prime_lock' = None
    /\ tpc' = [tpc EXCEPT ![t] = AfterPrime(t)]
    /\ UNCHANGED <<clock, tattempt, tafter, running, breakerVars, bucketVars,
                   taskForeign>>

\* await self._client.request(...) is over, and the rest of the attempt
ARequestDone(t) ==
    /\ running = None
    /\ tpc[t] = "await_request"
    /\ \E o \in TransportOutcomes(tattempt[t]), d \in RetryAfter :
          /\ (d > 0) => (o.kind = "response" /\ o.status = 429)
          /\ IF o.kind = "exception"
             THEN /\ _failures' = FailureRecorded(clock).failures
                  /\ _opened_at' = FailureRecorded(clock).opened_at
                  /\ lastFailure' = clock
                  /\ tpc' = [tpc EXCEPT ![t] = IF RetryableException(o.exc)
                                                 THEN AfterRetryable(t) ELSE "done"]
                  /\ UNCHANGED <<running, _primed, _prime_lock, tafter, phist>>
             ELSE IF _is_retryable_response(o)
             THEN /\ UNCHANGED <<_failures, _opened_at, lastFailure>>
                  /\ IF d > 0
                     THEN /\ tpc' = [tpc EXCEPT ![t] = "retry_after_sleep"]
                          /\ running' = t
                          /\ UNCHANGED <<_primed, _prime_lock, tafter, phist>>
                     ELSE IF o.status = 403
                     THEN /\ _primed' = FALSE
                          /\ EnterPrime(t, "return")
                     ELSE /\ tpc' = [tpc EXCEPT ![t] = AfterRetryable(t)]
                          /\ UNCHANGED <<running, _primed, _prime_lock, tafter, phist>>
             ELSE /\ _failures' = 0
                  /\ _opened_at' = None
                  /\ tpc' = [tpc EXCEPT ![t] = "done"]
                  /\ UNCHANGED <<lastFailure, running, _primed, _prime_lock, tafter, phist>>
    /\ UNCHANGED <<clock, tattempt, failure_threshold, reset_timeout, allowed, bcalls,
                   bucketVars, taskForeign>>

\* time.sleep(min(delay, 5.0)) in _respect_retry_after returns
ARetryAfterWake(t) ==
    /\ tpc[t] = "retry_after_sleep"
    /\ clock < MaxClock
    /\ clock' = clock + 1
    /\ running' = None
    /\ tpc' = [tpc EXCEPT ![t] = AfterRetryable(t)]
    /\ UNCHANGED <<tattempt, tafter, _primed, _prime_lock, phist, breakerVars, bucketVars,
                   taskForeign>>

\* time passes while every task is suspended
ATaskTick ==
    /\ running = None
    /\ \E t \in Tasks : tpc[t] # "done"
    /\ clock < MaxClock
    /\ clock' = clock + 1
    /\ UNCHANGED <<taskVars, breakerVars, bucketVars, taskForeign>>

AsyncClientNext ==
    \/ \E t \in Tasks : ABegin(t)
    \/ \E t \in Tasks : ABackoffDone(t)
    \/ \E t \in Tasks : ARateWake(t)
    \/ \E t \in Tasks : APrimeLockGranted(t)
    \/ \E t \in Tasks : APrimeDone(t)
    \/ \E t \in Tasks : ARequestDone(t)
    \/ \E t \in Tasks : ARetryAfterWake(t)
    \/ ATaskTick

\* NTasks tasks of one event loop, each awaiting get(path) of one shared
\* NSEAsyncHttpClient
SpecAsyncClient == AsyncClientInit /\ [][AsyncClientNext]_vars

\* ---- the first requests of the tasks
\* The transport answers each task's request with a response that ends the call
\* or with an error that is not retried, so that every task makes one attempt.
AFirstRequestDone(t) == ARequestDone(t) /\ tpc'[t] = "done"

FirstRequestsNext ==
    \/ \E t \in Tasks : ABegin(t)
    \/ \E t \in Tasks : ARateWake(t)
    \/ \E t \in Tasks : APrimeLockGranted(t)
    \/ \E t \in Tasks : APrimeDone(t)
    \/ \E t \in Tasks : AFirstRequestDone(t)
    \/ ATaskTick

\* NTasks tasks of one event loop, each issuing its first request on one shared
\* NSEAsyncHttpClient that has not been primed
SpecFirstRequests == AsyncClientInit /\ [][FirstRequestsNext]_vars

\* C18: while a task of the asynchronous client waits for a rate-limit token or
\* for a Retry-After delay, only that task is suspended: another task that is
\* ready to run can be run by the loop.
C18_WaitSuspendsOnlyCaller ==
    \A a, b \in Tasks :
        (a # b /\ tpc[a] \in TaskSleeps /\ tpc[b] = "ready") => ENABLED ABegin(b)

\* C18, what the code does: both waits are time.sleep calls, so while a task
\* is in one, no other task of the loop takes a step.
C18_WaitBlocksLoop ==
    [][\A a, b \in Tasks :
          (a # b /\ tpc[a] \in TaskSleeps) => tpc'[b] = tpc[b]]_vars

C18_Witness ==
    /\ tpc[1] = "rate_sleep"
    /\ tpc[2] = "ready"
    /\ running = 1
    /\ capacity = 1

\* ------------------------------------------- the statistics over several calls
\* One RequestBatcher whose owner calls batch_requests, abatch_requests and
\* reset_stats one after the other.
StatsInit ==
    /\ requests = <<>>
    /\ strategy \in Strategies
    /\ max_batch_size = 1
    /\ max_concurrent_batches = 2
    /\ max_concurrency = None
    /\ durations = <<>>
    /\ bpc = "done"
    /\ batches = <<>>
    /\ cur = 0
    /\ futures = <<>>
    /\ par_results = <<>>
    /\ ret = <<>>
    /\ stats = NoStats
    /\ elapsed = None
    /\ performed = <<>>
    /\ outOfOrder = FALSE
    /\ apc = "done"
    /\ task = <<>>
    /\ remaining = <<>>
    /\ semaphore = 0
    /\ results = <<>>
    /\ aclock = 0
    /\ PoolUnused
    /\ GlobalUnset
    /\ HttpUnused

\* the owner begins its next call, of batch_requests or of abatch_requests,
\* with a list of 0, 1 or 2 requests
StatsNewCall ==
    /\ bpc = "done"
    /\ apc = "done"
    /\ \E n \in 0..2, sync \in BOOLEAN :
          /\ stats.total_requests + n <= MaxTotal
          /\ requests' = AsyncRequests(n)
          /\ performed' = [i \in 1..n |-> NotPerformed]
          /\ bpc' = IF sync THEN "idle" ELSE "done"
          /\ apc' = IF sync THEN "done" ELSE "idle"
          /\ durations' \in IF sync THEN {<<>>} ELSE [1..n -> 1..MaxDur]
    /\ batches' = <<>>
    /\ cur' = 0
    /\ futures' = <<>>
    /\ par_results' = <<>>
    /\ ret' = <<>>
    /\ outOfOrder' = FALSE
    /\ task' = <<>>
    /\ remaining' = <<>>
    /\ semaphore' = 0
    /\ results' = <<>>
    /\ aclock' = 0
    /\ UNCHANGED <<strategy, max_batch_size, max_concurrent_batches, max_concurrency,
                   stats, elapsed, poolVars, globalVars, httpVars, lockVars, callVars>>

\* reset_stats()
reset_stats ==
    /\ stats # NoStats
    /\ stats' = NoStats
    /\ UNCHANGED <<requests, max_batch_size, max_concurrent_batches, ret, elapsed,
                   performed, batchOnly, asyncOnly, poolVars, globalVars, httpVars, lockVars, callVars>>

StatsNext ==
    \/ StatsNewCall
    \/ BatchNext
    \/ AsyncNext
    \/ reset_stats

SpecStats == StatsInit /\ [][StatsNext]_vars

\* the statistics s after a call given n requests that returned rs after d
Added(s, n, rs, d) ==
    [total_requests |-> s.total_requests + n,
     successful_requests |-> s.successful_requests + Len(SelectSeq(rs, LAMBDA r : r.success)),
     failed_requests |-> s.failed_requests + Len(SelectSeq(rs, LAMBDA r : ~r.success)),
     total_duration |-> s.total_duration + d]

Counters(s) ==
    [total_requests |-> s.total_requests,
     successful_requests |-> s.successful_requests,
     failed_requests |-> s.failed_requests,
     total_duration |-> s.total_duration]

\* a step in which a call given a non-empty list returns
SyncReturns == bpc \in {"sequential", "sequential_adaptive", "parallel"} /\ bpc' = "done"
AsyncReturns == apc = "gather" /\ apc' = "done"

\* C19: every call of batch_requests or abatch_requests with a non-empty list
\* adds len(requests) to total_requests, the numbers of successful and of
\* failed results to successful_requests and failed_requests, and its elapsed
\* time to total_duration, in one step under the lock; reset_stats() sets every
\* counter to zero.
C19_EveryCallAddsToStats ==
    [][/\ (SyncReturns \/ AsyncReturns) =>
             Counters(stats') = Added(stats, Len(requests), ret', elapsed')
       /\ (stats' # stats /\ ~SyncReturns /\ ~AsyncReturns) => stats' = NoStats]_vars

\* C19, what the code does: abatch_requests adds to the three counts and
\* leaves total_duration as it was.
C19_AsyncCallKeepsDuration ==
    [][/\ SyncReturns =>
             Counters(stats') = Added(stats, Len(requests), ret', elapsed')
       /\ AsyncReturns =>
             Counters(stats') = Added(stats, Len(requests), ret', 0)
       /\ (stats' # stats /\ ~SyncReturns /\ ~AsyncReturns) => stats' = NoStats]_vars

C19_Witness ==
    /\ apc = "done"
    /\ bpc = "done"
    /\ Len(requests) = 2
    /\ Len(ret) = 2
    /\ durations # <<>>
    /\ elapsed >= 1
    /\ stats.total_requests = 3
    /\ stats.successful_requests = 2
    /\ stats.failed_requests = 1
    /\ stats.total_duration = 0

\* a step that is a call of get_pool_stats
IsGetPoolStatsStep == nops' = nops + 1 /\ pcall'.op = "get_pool_stats"

\* C20: get_pool_stats is read-only: it purges no entry, bumps no last_used and
\* creates or closes no client; two calls with no pool operation between them
\* return identical values; and the counts returned are the numbers of entries
\* and of host keys held in the sync and the async buckets.
C20_PoolStatsReadOnly ==
    [][IsGetPoolStatsStep =>
          /\ UNCHANGED <<clients, aclients, constructed, closeCalls, session_ttl,
                         max_sessions>>
          /\ pstats'.sync_clients = Cardinality(EntriesOf(clients))
          /\ pstats'.async_clients = Cardinality(EntriesOf(aclients))
          /\ pstats'.hosts_sync = Cardinality(DOMAIN clients)
          /\ pstats'.hosts_async = Cardinality(DOMAIN aclients)
          /\ (pcall.op = "get_pool_stats" => pstats' = pstats)]_vars

\* the second of two get_pool_stats calls, made after time passed, with a
\* tracked entry that has expired
C20_Witness ==
    /\ pcall.op = "get_pool_stats"
    /\ pcall.path = "again"
    /\ pstats.sync_clients = 1
    /\ pstats.hosts_sync = 1
    /\ \E e \in EntriesOf(clients) : IsExpired(e, now) /\ e.last_used = e.created

\* C21: whatever get_client, get_async_client and close_all calls were made and
\* however the clock advanced, each host's sync bucket and each host's async
\* bucket holds at most max_sessions entries.
C21_BucketsWithinMaxSessions ==
    /\ \A h \in DOMAIN clients : Len(clients[h]) <= max_sessions
    /\ \A h \in DOMAIN aclients : Len(aclients[h]) <= max_sessions

\* a call that found its host's bucket full of entries past their TTL and took
\* the least recently used one
C21_Witness ==
    /\ pcall.path = "lru"
    /\ \E h \in DOMAIN clients : Len(clients[h]) = max_sessions /\ h = pcall.netloc
    /\ \E h \in DOMAIN aclients : Len(aclients[h]) = max_sessions

\* C22: in every state of a CircuitBreaker whose methods are called in any
\* order by several threads, _opened_at is set only if _failures is at least
\* failure_threshold; and right after a record_success _failures is 0 and
\* _opened_at is unset.
C22_OpenedOnlyAtThreshold ==
    /\ _opened_at # None => _failures >= failure_threshold
    /\ bcalls.op = "record_success" => (_failures = 0 /\ _opened_at = None)

\* a success recorded on a breaker that had been open: allow() had returned
\* false
C22_Witness ==
    /\ bcalls.op = "record_success"
    /\ allowed.called /\ ~allowed.value
    /\ lastFailure # None
    /\ failure_threshold >= 2
    /\ _opened_at = None

\* a step that is a call of allow() / of record_failure()
IsAllowStep == bcalls'.op = "allow" /\ clock' = clock
IsFailureStep == bcalls'.op = "record_failure" /\ clock' = clock

\* C26: once reset_timeout has passed since _opened_at, allow() returns true to
\* every caller, however many callers there are and however often they call,
\* until a record_failure or a record_success changes the breaker; allow()
\* itself changes neither _failures nor _opened_at.
C26_HalfOpenLetsEveryCallerThrough ==
    [][IsAllowStep =>
          /\ UNCHANGED <<_failures, _opened_at>>
          /\ (_opened_at # None /\ clock - _opened_at >= reset_timeout) =>
                /\ allowed'.value
                /\ bcalls.passed \subseteq bcalls'.passed
                /\ bcalls'.passed # {}]_vars

\* every thread has been let through an open breaker past its timeout, with no
\* call changing the breaker in between
C26_Witness ==
    /\ _opened_at # None
    /\ reset_timeout >= 1
    /\ clock - _opened_at >= reset_timeout
    /\ bcalls.op = "allow"
    /\ bcalls.passed = Threads
    /\ _failures >= failure_threshold

\* C27: record_failure adds one to _failures and, whenever the new count is at
\* least failure_threshold, sets _opened_at to the current time; so a failure
\* recorded on an open breaker past its timeout opens it again: allow() is
\* false until reset_timeout has passed since that failure.
C27_FailureReopens ==
    /\ [][IsFailureStep =>
             /\ _failures' = _failures + 1
             /\ _opened_at' = IF _failures + 1 >= failure_threshold
                              THEN clock ELSE _opened_at]_vars
    /\ []((bcalls.op = "record_failure" /\ bcalls.retrial) =>
             /\ _opened_at = lastFailure
             /\ allow(clock) <=> clock - lastFailure >= reset_timeout)

\* a failure recorded on an open breaker past its timeout, and allow() false
\* after it
C27_Witness ==
    /\ bcalls.op = "record_failure"
    /\ bcalls.retrial
    /\ reset_timeout >= 1
    /\ lastFailure >= reset_timeout
    /\ _failures > failure_threshold
    /\ clock > lastFailure
    /\ ~allow(clock)

\* C23: with several threads calling acquire(cost), cost >= 1, as time passes,
\* the tokens stay within 0..capacity, and no token is taken twice: the tokens
\* taken by all calls and those left never exceed the full bucket the object
\* started with plus one token per refill period gone by.
C23_TokensWithinCapacityNeverShared ==
    /\ 0 <= tokens
    /\ tokens <= capacity
    /\ SumOver(taken, Threads) + tokens <= capacity + (clock \div refill_period)

C23_Witness ==
    \E t, u \in Threads :
        /\ t # u
        /\ taken[t] >= 1
        /\ taken[u] >= 1
        /\ tokens = 0
        /\ tacq[u].state = "sleeping"
        /\ SumOver(taken, Threads) > capacity

\* an attempt of the request has just received a response
IsResponseStep == sent' = sent + 1 /\ last'.kind = "response"

\* C24: an attempt that receives a response with a status in {302, 403, 429,
\* 500, 502, 503, 504} calls neither record_success nor record_failure and
\* leaves failure_count and opened_at as they were, so a request whose attempts
\* all received such responses leaves the count where it was and a closed
\* circuit closed; a response with any other status calls record_success.
C24_RetryableResponseLeavesBreaker ==
    /\ [][IsResponseStep =>
             IF last'.status \in {302, 403, 429, 500, 502, 503, 504}
             THEN UNCHANGED <<_failures, _opened_at, bcalls>>
             ELSE /\ bcalls'.op = "record_success"
                  /\ _failures' = 0
                  /\ _opened_at' = None]_vars
    /\ [](nrequests = 1 /\ onlyRetryable =>
             /\ _failures = before
             /\ before < failure_threshold => _opened_at = None)

C24_Witness ==
    /\ sent = AttemptCeiling
    /\ onlyRetryable
    /\ last.kind = "response"
    /\ last.status = 302
    /\ before >= 1
    /\ before = failure_threshold - 1
    /\ _opened_at = None
    /\ bcalls.op = "allow"

\* the transport call of an attempt has just raised
IsRaiseStep == sent' = sent + 1 /\ last'.kind = "exception"

\* C25: every attempt whose transport call raises calls record_failure, once,
\* so that while no success has been recorded the failure count is the count
\* the call began with plus the number of its attempts that raised, and once
\* that sum reaches failure_threshold the circuit is open since the last of
\* them, whether the failures are those of one call or of several.
C25_EveryRaiseRecordsOneFailure ==
    /\ [][IsRaiseStep => /\ bcalls'.op = "record_failure"
                         /\ _failures' = _failures + 1]_vars
    /\ [](nrequests = 1 /\ bcalls.op # "record_success" =>
             /\ _failures = before + raised
             /\ (raised >= 1 /\ before + raised >= failure_threshold) =>
                   (_opened_at # None /\ _opened_at = lastFailure))

C25_Witness ==
    /\ rpc = "done"
    /\ before >= 1
    /\ before = failure_threshold - 1
    /\ raised = AttemptCeiling
    /\ _failures = before + AttemptCeiling
    /\ _opened_at = lastFailure
    /\ _opened_at # None

\* C30: when several tasks issue their first request on one async client
\* concurrently, one priming GET is sent and no more; a task sends its request
\* only once the client is primed; a task that waited for the priming lock goes
\* on to its request without priming; and the task whose priming GET is over
\* goes on to its request with the client marked primed, whether the GET
\* returned or raised.
C30_OnePrimingForConcurrentFirstRequests ==
    /\ [](phist.sent <= 1)
    /\ [](\A t \in Tasks : tpc[t] = "await_request" => (_primed /\ phist.sent = 1))
    /\ [][\A t \in Tasks :
             (tpc[t] = "await_prime_lock" /\ tpc'[t] # tpc[t]) =>
                (tpc'[t] = "await_request" /\ phist'.sent = phist.sent)]_vars
    /\ [][\A t \in Tasks :
             (tpc[t] = "await_prime" /\ tpc'[t] # tpc[t]) =>
                (tpc'[t] = "await_request" /\ _primed')]_vars

C30_Witness ==
    /\ phist.failed
    /\ phist.sent = 1
    /\ ~phist.forbidden
    /\ \E t \in phist.waited : tpc[t] = "await_request"
    /\ \E u \in Tasks \ phist.waited : tpc[u] = "await_request"

\* the requests of chunk k that perform has been called for are the first ones
\* of the chunk, each once: the chunk is worked through in input order
InChunkOrder(k) ==
    \A pos \in 1..Len(batches[k]) :
        performed[InputIndex(k, pos)].calls = IF pos < futures[k].pos THEN 1 ELSE 0

\* C28: under PARALLEL at most max_concurrent_batches chunks are being
\* processed at any time, each chunk's requests are performed one after another
\* in input order, batch_requests returns only when every chunk has been
\* processed to its end and collected, and, the threads being scheduled and
\* perform returning, every chunk is eventually processed and the call returns.
C28_BoundedParallelChunks ==
    /\ [](strategy = "parallel" =>
             /\ Cardinality(Running) <= max_concurrent_batches
             /\ \A k \in 1..Len(futures) : InChunkOrder(k))
    /\ []((strategy = "parallel" /\ bpc = "done") =>
             \A k \in 1..Len(futures) :
                 /\ futures[k].state = "collected"
                 /\ futures[k].pos = Len(batches[k]) + 1)
    /\ (strategy = "parallel" /\ bpc = "parallel") ~> (bpc = "done")

C28_Witness ==
    /\ strategy = "parallel"
    /\ bpc = "parallel"
    /\ Len(futures) > max_concurrent_batches
    /\ max_concurrent_batches >= 2
    /\ Cardinality(Running) = max_concurrent_batches
    /\ \E k \in 1..Len(futures) : futures[k].state = "queued"
    /\ \E k \in Running : futures[k].pos = 1

\* perform behaved as a function of the parameters: equal parameters, equal outcome
DeterministicPerform ==
    \A i, j \in 1..Len(requests) :
        (requests[i] = requests[j]) => (performed[i].raised = performed[j].raised)

\* what SEQUENTIAL returns for reqs in chunks of the given size when perform
\* raises on the parameters in fails and returns on the others: chunk after
\* chunk, request after request (lines 107-111 and 193-222)
SequentialReturn(reqs, size, fails) ==
    LET bs == _create_batches(reqs, size)
        one(p) == BatchResultOf([raised |-> p \in fails,
                                 value |-> IF p \in fails THEN ExceptionText(p)
                                           ELSE PerformData(p)])
    IN  Concat([k \in 1..Len(bs) |-> [j \in 1..Len(bs[k]) |-> one(bs[k][j])]])

\* C29: under ADAPTIVE the chunks go to the worker pool exactly when there are
\* at most max_concurrent_batches of them; otherwise one thread works them
\* through one after another in input order, no two perform calls at a time;
\* either way, when perform is deterministic, the results returned are those
\* SEQUENTIAL returns for the same input.
C29_AdaptiveAsSequential ==
    /\ (strategy = "adaptive" /\ bpc \in {"parallel", "sequential_adaptive"}) =>
          ((bpc = "parallel") <=> (Len(batches) <= max_concurrent_batches))
    /\ (strategy = "adaptive" /\ bpc = "sequential_adaptive") =>
          /\ Running \subseteq {cur}
          /\ \A k \in 1..Len(batches) :
                /\ InChunkOrder(k)
                /\ k < cur => futures[k].pos = Len(batches[k]) + 1
                /\ k > cur => futures[k].pos = 1
    /\ (strategy = "adaptive" /\ bpc = "done" /\ DeterministicPerform) =>
          ret = SequentialReturn(requests, max_batch_size,
                                 {requests[i] : i \in {j \in 1..Len(requests) :
                                                          performed[j].raised}})

C29_Witness ==
    /\ strategy = "adaptive"
    /\ bpc = "done"
    /\ DeterministicPerform
    /\ Len(batches) = 2
    /\ max_concurrent_batches = 2
    /\ outOfOrder
    /\ Len(ret) = 3
    /\ ret[1].success
    /\ ~ret[3].success

\* the entries of host h that a purge run at the current time leaves tracked
LeftByPurge(h) == {e \in BucketEntries(clients, h) : now - e.created < session_ttl}

C32_BucketedBySchemeAndNetloc ==
    pcall.op = "get_client" =>
       /\ constructed[pcall.ret].netloc = pcall.netloc
       /\ constructed[pcall.ret].scheme = pcall.scheme

\* C32 (what the code does): the bucket is chosen by the network location
\* alone; the client returned was constructed for the requested network
\* location, and a client constructed by the call has the requested scheme.
C32_BucketedByNetloc ==
    pcall.op = "get_client" =>
       /\ constructed[pcall.ret].netloc = pcall.netloc
       /\ pcall.path = "create" => constructed[pcall.ret].scheme = pcall.scheme
       /\ DOMAIN clients \subseteq Netlocs

C32_Witness ==
    /\ pcall.op = "get_client"
    /\ pcall.path = "reuse"
    /\ pcall.scheme = "http"
    /\ constructed[pcall.ret].scheme = "https"
    /\ constructed[pcall.ret].netloc = pcall.netloc

\* C36 (as stated): every call of get_connection_pool returns a pool, never
\* None, whatever reset_connection_pool calls run in other threads.
C36_NeverReturnsNone == \A t \in Threads : gret[t] # None

\* C36 (what the code does): a call of get_connection_pool returns None only
\* when a reset_connection_pool call ran between its entry and its return.
C36_NoneOnlyAcrossReset ==
    [][\A t \in Threads :
          (gpc[t] = "g_return" /\ gpc'[t] = "idle" /\ gret'[t] = None) =>
             ~QuietSince(gstart[t])]_vars

C36_Witness ==
    \E t \in Threads :
       /\ gpc[t] = "idle"
       /\ gret[t] = None
       /\ _connection_pool = None
       /\ pools # <<>>
       /\ _pool_lock = 0

\* C38 (as stated): a client constructed by get_client stays tracked in its
\* host bucket until the expiry purge or close_all removes and closes it; the
\* insertion of a new entry never drops a tracked client unclosed.
C38_TrackedUntilClosed ==
    \A c \in 1..Len(constructed) :
       constructed[c].kind = "sync" =>
          c \in Tracked(clients) \/ closeCalls[c] >= 1

\* C38 (what the code does): a tracked sync client leaves its bucket either
\* closed by the step that removes it, or replaced, unclosed, by a new entry
\* stored under the id (client_<bucket size>) the bucket already held.
C38_DroppedOnlyByIdCollision ==
    [][\A e \in EntriesOf(clients) :
          e.client \notin Tracked(clients') =>
             \/ closeCalls'[e.client] = closeCalls[e.client] + 1
             \/ /\ pcall'.op = "get_client"
                /\ pcall'.path = "create"
                /\ \E n \in BucketEntries(clients', pcall'.netloc) :
                      /\ n.client = pcall'.ret
                      /\ n.id = e.id
                      /\ n.client # e.client]_vars

C38_Witness ==
    /\ pcall.op = "get_client"
    /\ pcall.path = "create"
    /\ \E c \in 1..Len(constructed) :
          /\ constructed[c].kind = "sync"
          /\ constructed[c].netloc = pcall.netloc
          /\ c \notin Tracked(clients)
          /\ c \notin pcall.purged
          /\ closeCalls[c] = 0
          /\ \E n \in BucketEntries(clients, pcall.netloc) :
                n.client = pcall.ret /\ n.id = 1

\* C37 (as stated): the pool never closes a sync client while a request issued
\* through it is in flight: no client with a request in flight has had its
\* close() called, by the expiry purge of a get_client call or by close_all.
C37_NeverClosedInFlight == \A c \in inflight : closeCalls[c] = 0

\* C37 (what the code does): use is not tracked; a client with a request in
\* flight is closed by close_all, and by the purge of a get_client call once
\* its age has reached session_ttl, and by nothing else.
C37_ClosedInFlightByPurgeOrCloseAll ==
    [][\A c \in inflight :
          LET closedNow == closeCalls'[c] = closeCalls[c] + 1
              purgedNow == /\ pcall'.op = "get_client"
                           /\ c \in pcall'.purged
                           /\ now - constructed[c].born >= session_ttl
          IN  /\ closeCalls'[c] \in {closeCalls[c], closeCalls[c] + 1}
              /\ closedNow <=> (c \in Tracked(clients) /\
                                  (pcall'.op = "close_all" \/ purgedNow))]_vars

C37_Witness ==
    \E c \in inflight :
       /\ closeCalls[c] = 1
       /\ pcall.op = "get_client"
       /\ c \in pcall.purged
       /\ pcall.ret # c

\* =========================================================================
\* The locks of the core
\* =========================================================================
GlobalLock == "_pool_lock"              \* connection_pool._pool_lock
PoolLock == "NSEConnectionPool._lock"   \* an RLock
BreakerLock == "CircuitBreaker._lock"
BucketLock == "TokenBucket._lock"
StatsLock == "RequestBatcher._lock"

Locks == {GlobalLock, PoolLock, BreakerLock, BucketLock, StatsLock}

\* threading.RLock may be taken again by the thread that holds it
Reentrant(l) == l = PoolLock

\* "with lock:" entered, and left
Acquire(l) == [do |-> "acquire", lock |-> l]
Release(l) == [do |-> "release", lock |-> l]

\* "with lock: body", the body having the lock operations inner
With(l, inner) == <<Acquire(l)>> \o inner \o <<Release(l)>>

\* get_client, get_async_client, get_pool_stats: all of the call is one
\* "with self._lock" block; constructing or closing a client inside it takes
\* no lock of the core
PoolCallLocks == With(PoolLock, <<>>)

\* close_all
CloseAllTakesGlobal == With(PoolLock, With(GlobalLock, <<>>))
CloseAllLocks == With(PoolLock, <<>>)

\* get_connection_pool when it finds the global unset
GetPoolLocks == With(GlobalLock, <<>>)

\* reset_connection_pool: close_all is called inside "with _pool_lock" when a
\* pool exists
ResetLocks(exists) == With(GlobalLock, IF exists THEN CloseAllLocks ELSE <<>>)

\* one attempt of _request_with_retry: allow(), acquire(1) (one pass or,
\* after a sleep made with the lock released, two), and record_success or
\* record_failure
AttemptLocks(passes) ==
    With(BreakerLock, <<>>)
       \o (IF passes = 2 THEN With(BucketLock, <<>>) ELSE <<>>)
       \o With(BucketLock, <<>>)
       \o With(BreakerLock, <<>>)

\* batch_requests: the requests are performed first (here each through the
\* client), then the statistics are updated under the batcher's lock
BatchLocks(n) ==
    (IF n = 0 THEN <<>> ELSE AttemptLocks(n)) \o With(StatsLock, <<>>)

\* get_stats, reset_stats
StatsLocks == With(StatsLock, <<>>)

\* the lock operations of the calls a thread can make
LockScripts ==
    {PoolCallLocks, CloseAllLocks, GetPoolLocks, StatsLocks}
       \cup {ResetLocks(e) : e \in BOOLEAN}
       \cup {AttemptLocks(p) : p \in 1..2}
       \cup {BatchLocks(n) : n \in 0..2}

Holders(l) == {t \in Threads : \E i \in 1..Len(held[t]) : held[t][i] = l}

\* thread t can do the next lock operation of its call
CanProceed(t) ==
    /\ lscript[t] # <<>>
    /\ Head(lscript[t]).do = "acquire" =>
          \/ Holders(Head(lscript[t]).lock) = {}
          \/ Reentrant(Head(lscript[t]).lock) /\ Holders(Head(lscript[t]).lock) = {t}

LocksInit ==
    /\ GlobalUnset
    /\ HttpUnused
    /\ PoolUnused
    /\ requests = <<>>
    /\ strategy = "adaptive"
    /\ max_batch_size = 1
    /\ max_concurrent_batches = 1
    /\ max_concurrency = None
    /\ durations = <<>>
    /\ BatchIdle
    /\ AsyncIdle

\* thread t, in no call, begins a call of the core
LockCall(t) ==
    /\ lscript[t] = <<>>
    /\ \E sc \in LockScripts : lscript' = [lscript EXCEPT ![t] = sc]
    /\ UNCHANGED held
    /\ UNCHANGED <<sharedVars, batchOnly, asyncOnly, poolVars, globalVars, httpVars, callVars>>

\* thread t enters or leaves a "with" block
LockStep(t) ==
    /\ CanProceed(t)
    /\ LET e == Head(lscript[t])
       IN  held' = [held EXCEPT ![t] =
                       IF e.do = "acquire" THEN Append(@, e.lock)
                       ELSE SubSeq(@, 1, Len(@) - 1)]
    /\ lscript' = [lscript EXCEPT ![t] = Tail(@)]
    /\ UNCHANGED <<sharedVars, batchOnly, asyncOnly, poolVars, globalVars, httpVars, callVars>>

LocksNext == \E t \in Threads : LockCall(t) \/ LockStep(t)

\* threads calling the pool, the global pool, a client and the batcher
SpecLocks == LocksInit /\ [][LocksNext]_vars

\* C34 (as stated): no thread acquires a lock of the core while it already
\* holds another of them.
C34_LocksNeverNested == \A t \in Threads : Len(held[t]) <= 1

\* C34 (amended): the only nesting is the pool-wide lock taken (by close_all)
\* inside the global-pool lock held by reset_connection_pool; and whenever a
\* thread is inside a call, some thread inside a call can go on: no
\* lock-order deadlock.
C34_OnlyResetNests ==
    /\ \A t \in Threads :
          /\ Len(held[t]) <= 2
          /\ Len(held[t]) = 2 => held[t] = <<GlobalLock, PoolLock>>
    /\ \A l \in Locks : Cardinality(Holders(l)) <= 1
    /\ (\E t \in Threads : lscript[t] # <<>>) => \E t \in Threads : CanProceed(t)

C34_Witness ==
    \E t, u \in Threads :
       /\ held[t] = <<GlobalLock, PoolLock>>
       /\ held[u] = <<>>
       /\ lscript[u] # <<>>
       /\ Head(lscript[u]) = Acquire(PoolLock)
       /\ ~CanProceed(u)

\* =========================================================================
\* Threads calling batch_requests concurrently on one RequestBatcher
\* =========================================================================
\* the lines of the "with self._lock" block of batch_requests, and get_stats
UpdateLines == {"total", "successful", "failed", "duration"}

InCall(t) == bcall[t].pc # "idle" /\ bcall[t].pc # "reading"

\* the input lengths of the calls begun so far
Begun == finished.total + SumOver([t \in Threads |-> IF InCall(t) THEN bcall[t].n ELSE 0],
                                  Threads)

\* "with self._lock:" can be entered
StatsLockIgnored == TRUE
StatsLockFree == slock = 0

CallsInit == LocksInit /\ stats = NoStats

\* thread t calls batch_requests with n requests, ok of which will succeed;
\* the requests are processed before the lock is taken
TBatchCall(t) ==
    /\ bcall[t].pc = "idle"
    /\ \E n \in 0..MaxBatch : \E ok \in 0..n :
          /\ Begun + n <= MaxTotal
          /\ finished.calls + Cardinality({u \in Threads : InCall(u)}) < MaxCalls
          /\ bcall' = [bcall EXCEPT ![t] = [pc |-> "processed", n |-> n, ok |-> ok]]
    /\ UNCHANGED <<slock, finished, lockVars>>
    /\ UNCHANGED <<sharedVars, batchOnly, asyncOnly, poolVars, globalVars, httpVars>>

\* with self._lock:
TStatsLock(t) ==
    /\ bcall[t].pc = "processed"
    /\ StatsLockFree
    /\ slock' = t
    /\ bcall' = [bcall EXCEPT ![t].pc = "total"]
    /\ UNCHANGED <<finished, lockVars>>
    /\ UNCHANGED <<sharedVars, batchOnly, asyncOnly, poolVars, globalVars, httpVars>>

\* one line of the block; after the last one the lock is released and the
\* call returns
TStatsLine(t) ==
    /\ bcall[t].pc \in UpdateLines
    /\ LET c == bcall[t]
       IN  \/ /\ c.pc = "total"
              /\ stats' = [stats EXCEPT !.total_requests = @ + c.n]
              /\ bcall' = [bcall EXCEPT ![t].pc = "successful"]
              /\ UNCHANGED <<slock, finished>>
           \/ /\ c.pc = "successful"
              /\ stats' = [stats EXCEPT !.successful_requests = @ + c.ok]
              /\ bcall' = [bcall EXCEPT ![t].pc = "failed"]
              /\ UNCHANGED <<slock, finished>>
           \/ /\ c.pc = "failed"
              /\ stats' = [stats EXCEPT !.failed_requests = @ + (c.n - c.ok)]
              /\ bcall' = [bcall EXCEPT ![t].pc = "duration"]
              /\ UNCHANGED <<slock, finished>>
           \/ /\ c.pc = "duration"
              /\ \E d \in 0..1 :
                    stats' = IF c.n > 0 THEN WithDuration(stats, c.n, d)
                             ELSE [stats EXCEPT !.total_duration = @ + d]
              /\ bcall' = [bcall EXCEPT ![t] = NoBatchCall]
              /\ slock' = 0
              /\ finished' = [calls |-> finished.calls + 1,
                               total |-> finished.total + c.n, ok |-> finished.ok + c.ok]
    /\ UNCHANGED lockVars
    /\ UNCHANGED <<requests, max_batch_size, max_concurrent_batches, ret, elapsed,
                   performed, batchOnly, asyncOnly, poolVars, globalVars, httpVars>>

\* get_stats takes the lock to read the statistics
TGetStats(t) ==
    /\ bcall[t].pc = "idle"
    /\ StatsLockFree
    /\ slock' = t
    /\ bcall' = [bcall EXCEPT ![t].pc = "reading"]
    /\ UNCHANGED <<finished, lockVars>>
    /\ UNCHANGED <<sharedVars, batchOnly, asyncOnly, poolVars, globalVars, httpVars>>

\* get_stats returns what it read and releases the lock
TGetStatsReturn(t) ==
    /\ bcall[t].pc = "reading"
    /\ slock' = 0
    /\ bcall' = [bcall EXCEPT ![t] = NoBatchCall]
    /\ UNCHANGED <<finished, lockVars>>
    /\ UNCHANGED <<sharedVars, batchOnly, asyncOnly, poolVars, globalVars, httpVars>>

CallsNext ==
    \E t \in Threads :
       \/ TBatchCall(t)
       \/ TStatsLock(t)
       \/ TStatsLine(t)
       \/ TGetStats(t)
       \/ TGetStatsReturn(t)

\* threads calling batch_requests and get_stats on one batcher, no reset_stats
SpecCalls == CallsInit /\ [][CallsNext]_vars

\* a thread is reading the statistics under the lock, or the lock is free
Observable == slock = 0 \/ \E t \in Threads : bcall[t].pc = "reading"

\* C33: with batch_requests called concurrently from several threads on one
\* batcher and no reset, whatever is read under the lock has total_requests
\* equal to the sum of the input lengths of the calls completed and
\* successful_requests + failed_requests = total_requests: no update is lost
\* and no part of a call's update is seen without the rest.
C33_CountersAddUpUnderLock ==
    /\ Observable =>
          /\ stats.total_requests = finished.total
          /\ stats.successful_requests = finished.ok
          /\ stats.successful_requests + stats.failed_requests = stats.total_requests
    /\ \A t \in Threads : bcall[t].pc \in UpdateLines \cup {"reading"} => slock = t

C33_Witness ==
    \E t, u \in Threads :
       /\ bcall[t].pc = "reading"
       /\ bcall[u].pc = "processed"
       /\ bcall[u].n = 2
       /\ finished.total >= 1
       /\ stats.total_requests = finished.total
       /\ stats.failed_requests >= 1

\* an attempt of the call is about to check the breaker, the attempt before it
\* having raised a transport failure that brought _failures to the threshold
OwnFailureOpened ==
    /\ rpc = "check"
    /\ raised >= 1
    /\ bcalls.op = "record_failure"
    /\ _failures = failure_threshold

\* the attempt being sent raises a failure that brings _failures to the
\* threshold
OpeningFailure ==
    /\ rpc = "send"
    /\ raised' = raised + 1
    /\ _failures' = failure_threshold

\* the failure is one the retry policy retries: httpx.HTTPError, or the
\* RuntimeError of a closed client
Retried == RetryableException(last'.exc)

\* C35 (as stated): when a transport failure of the request's own retry
\* sequence brings the failure count to failure_threshold, there is a next
\* attempt, it raises CircuitOpenError and ends the request, which has made
\* fewer than 5 transport calls and none after the circuit opened.
C35_OpenCircuitEndsRequest ==
    [][/\ (OpeningFailure /\ Retried) => rpc' = "backoff"
       /\ (OwnFailureOpened /\ rpc' # rpc) =>
             /\ rpc' = "done"
             /\ delivered' = CircuitOpenError(attempt)
             /\ sent' = sent
             /\ sent < AttemptCeiling]_vars

\* C35 (amended): the failure opens the circuit. When it is one the retry
\* policy retries and was raised by an attempt before the fifth, the next
\* attempt ends the request with CircuitOpenError, unretried and with nothing
\* sent, if less than reset_timeout has passed since the failure, and is let
\* through otherwise; when it was raised by the fifth attempt, or is not
\* retried, the request ends with that failure.
C35_OpenCircuitEndsRequestWithinTimeout ==
    [][/\ OpeningFailure =>
             /\ _opened_at' = clock
             /\ (Retried /\ attempt < AttemptCeiling) => rpc' = "backoff"
             /\ (~Retried \/ attempt = AttemptCeiling) =>
                   /\ rpc' = "done"
                   /\ delivered' = last'
                   /\ delivered'.exc \in TransportExceptions
                   /\ sent' = attempt
       /\ (OwnFailureOpened /\ rpc' # rpc) =>
             /\ _opened_at = lastFailure
             /\ IF clock - _opened_at < reset_timeout
                THEN /\ rpc' = "done"
                     /\ delivered' = CircuitOpenError(attempt)
                     /\ attempt' = attempt
                     /\ sent' = sent
                     /\ sent < AttemptCeiling
                ELSE /\ rpc' = "acquire"
                     /\ sent' = sent]_vars

C35_Witness ==
    /\ rpc = "done"
    /\ delivered = CircuitOpenError(3)
    /\ before = 0
    /\ raised = 2
    /\ sent = 2
    /\ _failures = failure_threshold
    /\ reset_timeout = 3
    /\ clock - _opened_at = 1

\* C39: with any number of threads calling acquire(1) on a bucket constructed
\* at time 0, the calls that have returned by time t number at most
\* capacity + floor(t * refill_rate).
C39_GrantsWithinRate ==
    /\ SumOver(taken, Threads) <= capacity + (clock \div refill_period)
    /\ \A t \in Threads : tacq[t].cost \in {0, 1}

C39_Witness ==
    \E t, u \in Threads :
       /\ t # u
       /\ taken[t] >= 2
       /\ taken[u] >= 1
       /\ clock >= 2
       /\ refill_period = 2
       /\ SumOver(taken, Threads) = capacity + (clock \div refill_period)
       /\ tacq[u].state = "sleeping"

\* C40: with refill_rate > 0 and a single caller, a call of acquire(cost) with
\* cost <= capacity returns as the clock advances; a call with cost > capacity
\* never returns and never lowers tokens.
C40_ReturnsIffCostWithinCapacity ==
    /\ (tacq[1].state # "idle" /\ tacq[1].cost <= capacity) ~> (tacq[1].state = "idle")
    /\ [][(tacq[1].state # "idle" /\ tacq[1].cost > capacity) =>
             /\ tacq'[1].state # "idle"
             /\ tacq'[1].cost = tacq[1].cost
             /\ tokens' >= tokens
             /\ taken' = taken]_vars

C40_Witness ==
    /\ tacq[1].state = "idle"
    /\ capacity = 2
    /\ refill_period = 1
    /\ tokens = 0
    /\ taken[1] = capacity + 2
    /\ clock = 2
    /\ _last_refill = 2

====
